---- MODULE Spec2Model ----
(***************************************************************************)
(* Model of the k6 load-test suite for the workoflow bot.                  *)
(*                                                                         *)
(* The test scripts (tests/simple-message.test.js, tests/smoke.test.js)    *)
(* are modelled from their source: the environment switch and validation   *)
(* run at script initialisation, the options objects (stages, thresholds), *)
(* the iteration functions and the setup/teardown hooks.  The engine that  *)
(* runs them (stage scheduler, VU pool, threshold evaluator, run           *)
(* controller) is not part of the repository; it is modelled from the      *)
(* design in spec.md, sections 4 and 5.                                    *)
(***************************************************************************)
EXTENDS Integers, Sequences, FiniteSets, TLC

VARIABLES
  script,      \* which test script the run executes
  stages,      \* the StageSpec of the run (ticks, target)
  ctrl,        \* Run Controller state
  status,      \* run status of the RunResult
  clock,       \* RunClock, in ticks since Staged-Execution began
  target,      \* target concurrency the pool is reconciled to
  cancel,      \* run-wide cancellation token
  extStop,     \* an external cancellation request was received
  vus,         \* the VU pool: ordinal id -> VirtualUser
  agg,         \* Metrics Aggregator: the MetricAggregates
  logs,        \* number of console.error lines written by iterations
  ctx,         \* context value returned by setup()
  tdData,      \* value teardown(data) received
  tdRuns,      \* number of times teardown ran
  setupRuns,   \* number of times setup ran
  evalFailed,  \* metrics whose threshold failed at the latest evaluation
  abortCause,  \* metrics whose threshold triggered the abort
  result,      \* RunResult: failed thresholds of the final snapshot
  env,         \* __ENV of the script under initialisation
  initState,   \* outcome of evaluating the script's top level
  initError,   \* message of the Error the top level threw, "" if none
  config,      \* the config object the switch built
  requests,    \* HTTP requests issued by the script, in order
  spc,         \* position of the script's single VU in its iteration
  healthResp,  \* smoke test: status of the health response, -1 if none
  smokeResp,   \* smoke test: the response of the POST
  smokeLogs,   \* smoke test: the console lines of the two groups, in order
  samples,     \* Trend recording: the samples each VU records, in its order
  recordedN,   \* Trend recording: how many of its samples each VU recorded
  trend,       \* Trend recording: the Trend aggregate (count, min, max, sum)
  tokenCache,  \* auth-helper: the module's Map, cache key -> {token, expiresAt}
  dateNow,     \* auth-helper: Date.now(), in ms
  calls,       \* auth-helper: the getBotToken calls, one slot per caller
  issued,      \* auth-helper: number of credentials.getToken() invocations
  cleared,     \* auth-helper: clearTokenCache ran and no getBotToken call since
  world,       \* verify-setup: files, tools and variables that are missing
  vpc,         \* verify-setup: index of the next check of main()
  hasErrors,   \* verify-setup: let hasErrors
  hasWarnings, \* verify-setup: let hasWarnings
  envOk,       \* verify-setup: localOk, stageOk, prodOk so far
  hints,       \* verify-setup: the localOk hints of the warnings summary printed
  summary,     \* verify-setup: which Summary branch printed
  exitCode,    \* verify-setup: exit code of the process, -1 while it runs
  genArgs,     \* generate-token: the environment argument and the set variables
  gpc,         \* generate-token: position in main()
  genOut,      \* generate-token: the tokens printed on stdout
  genErr,      \* generate-token: the error line printed on stderr
  genExit,     \* generate-token: exit code of the process, -1 while it runs
  authHeader,  \* generate-token: const authHeader, the value of the header
  vuCtx,       \* stress iteration: __VU of the VU and the number of active VUs
  phaseTag,    \* stress iteration: params.tags.phase of its request
  factoryCall, \* activity-factory: the exported function that was called
  factoryIn,   \* activity-factory: its argument (options or config)
  factoryOut   \* activity-factory: what the call returned, or that it threw

engineVars == <<script, stages, ctrl, status, clock, target, cancel, extStop,
                vus, agg, logs, ctx, tdData, tdRuns, setupRuns, evalFailed,
                abortCause, result>>
scriptVars == <<env, initState, initError, config, requests, spc, healthResp,
                smokeResp, smokeLogs>>
aggVars == <<samples, recordedN, trend>>
authVars == <<tokenCache, dateNow, calls, issued, cleared>>
verifyVars == <<world, vpc, hasErrors, hasWarnings, envOk, hints, summary,
                exitCode>>
genVars == <<genArgs, gpc, genOut, genErr, genExit, authHeader>>
libVars == <<vuCtx, phaseTag, factoryCall, factoryIn, factoryOut>>
toolVars == <<aggVars, authVars, verifyVars, genVars, libVars>>
vars == <<engineVars, scriptVars, toolVars>>

(***************************************************************************)
(* Bounds of the model.                                                    *)
(***************************************************************************)
MaxVUs == 2
MaxIter == 2
SchedHorizon == 520

Min(a, b) == IF a < b THEN a ELSE b

RECURSIVE SumDur(_, _)
SumDur(s, n) == IF n = 0 THEN 0 ELSE s[n].duration + SumDur(s, n - 1)

(***************************************************************************)
(* options.stages.  DefaultStages is the load test's profile in ticks of   *)
(* 100 ms.  The engine runs use two profiles scaled to the bounds: the     *)
(* scripts' shape (ramp up, hold, ramp down) and one whose target dips and *)
(* rises again, so that VUs are stopped and spawned in mid-run.            *)
(***************************************************************************)
(* the profile with its last stage holding the load instead of ramping down *)
DefaultStagesNoRampDown ==
  << [duration |-> 100, target |-> 5],
     [duration |-> 300, target |-> 5],
     [duration |-> 100, target |-> 5] >>

DefaultStages ==
  << [duration |-> 100, target |-> 5],
     [duration |-> 300, target |-> 5],
     [duration |-> 100, target |-> 0] >>

Profiles ==
  { << [duration |-> 2, target |-> MaxVUs],
       [duration |-> 1, target |-> MaxVUs],
       [duration |-> 2, target |-> 0] >>,
    << [duration |-> 1, target |-> MaxVUs],
       [duration |-> 1, target |-> MaxVUs - 1],
       [duration |-> 1, target |-> MaxVUs],
       [duration |-> 1, target |-> 0] >> }

TotalDuration(s) == SumDur(s, Len(s))

(***************************************************************************)
(* Stage Scheduler: target(t), linear interpolation inside a stage,        *)
(* rounded to the nearest integer; the last target is held afterwards.     *)
(***************************************************************************)
RECURSIVE StageAt(_, _, _, _, _)
StageAt(s, i, start, prev, t) ==
  IF i > Len(s) THEN prev
  ELSE IF t < start + s[i].duration
       THEN LET num == prev * s[i].duration + (s[i].target - prev) * (t - start)
                den == s[i].duration
            IN  (2 * num + den) \div (2 * den)
       ELSE StageAt(s, i + 1, start + s[i].duration, s[i].target, t)

StageTarget(s, t) == StageAt(s, 1, 0, 0, t)

(***************************************************************************)
(* options.thresholds of the three scripts in simple-message.test.js, as   *)
(* the key/value entries of the object literal in source order.  stat is   *)
(* the aggregate the expression reads; a rate limit is num/den.            *)
(***************************************************************************)
thresholds_load ==
  << [metric |-> "http_req_failed", stat |-> "rate", num |-> 1, den |-> 100,
      abortOnFail |-> FALSE],
     [metric |-> "http_req_duration", stat |-> "p95", num |-> 500, den |-> 1,
      abortOnFail |-> FALSE],
     [metric |-> "http_req_duration", stat |-> "p99", num |-> 1000, den |-> 1,
      abortOnFail |-> FALSE],
     [metric |-> "errors", stat |-> "rate", num |-> 5, den |-> 100,
      abortOnFail |-> FALSE] >>

thresholds_loadv2 ==
  << [metric |-> "http_req_failed", stat |-> "rate", num |-> 1, den |-> 100,
      abortOnFail |-> TRUE],
     [metric |-> "http_req_duration", stat |-> "p95", num |-> 10000, den |-> 1,
      abortOnFail |-> FALSE],
     [metric |-> "http_req_duration", stat |-> "p99", num |-> 15000, den |-> 1,
      abortOnFail |-> FALSE],
     [metric |-> "errors", stat |-> "rate", num |-> 5, den |-> 100,
      abortOnFail |-> FALSE] >>

(* the stress thresholds written as plain strings, without abortOnFail *)
thresholds_stress_NoAbort ==
  << [metric |-> "http_req_duration", stat |-> "p95", num |-> 10000, den |-> 1,
      abortOnFail |-> FALSE],
     [metric |-> "http_req_failed", stat |-> "rate", num |-> 1, den |-> 100,
      abortOnFail |-> FALSE],
     [metric |-> "errors", stat |-> "rate", num |-> 5, den |-> 100,
      abortOnFail |-> FALSE] >>

(* the stress thresholds with abortOnFail on the custom error rate too *)
thresholds_stress_ErrorsAbort ==
  << [metric |-> "http_req_duration", stat |-> "p95", num |-> 10000, den |-> 1,
      abortOnFail |-> TRUE],
     [metric |-> "http_req_failed", stat |-> "rate", num |-> 1, den |-> 100,
      abortOnFail |-> TRUE],
     [metric |-> "errors", stat |-> "rate", num |-> 5, den |-> 100,
      abortOnFail |-> TRUE] >>

thresholds_stress ==
  << [metric |-> "http_req_duration", stat |-> "p95", num |-> 10000, den |-> 1,
      abortOnFail |-> TRUE],
     [metric |-> "http_req_failed", stat |-> "rate", num |-> 1, den |-> 100,
      abortOnFail |-> TRUE],
     [metric |-> "errors", stat |-> "rate", num |-> 5, den |-> 100,
      abortOnFail |-> FALSE] >>

ThresholdEntries(sc) ==
  CASE sc = "load" -> thresholds_load
    [] sc = "loadv2" -> thresholds_loadv2
    [] OTHER -> thresholds_stress

(* config.thresholds of config/prod.env.js *)
thresholds_prod ==
  << [metric |-> "http_req_failed", stat |-> "rate", num |-> 2, den |-> 100,
      abortOnFail |-> FALSE],
     [metric |-> "http_req_duration", stat |-> "p95", num |-> 1500, den |-> 1,
      abortOnFail |-> FALSE],
     [metric |-> "http_req_duration", stat |-> "p99", num |-> 3000, den |-> 1,
      abortOnFail |-> FALSE] >>

(* an object that keeps every entry written, also for a repeated key *)
ObjectLiteralKeepsAll(entries) == { entries[i] : i \in DOMAIN entries }

(***************************************************************************)
(* A JavaScript object literal keeps, for a key written twice, the value   *)
(* written last.                                                           *)
(***************************************************************************)
ObjectLiteral(entries) ==
  { entries[i] : i \in { k \in DOMAIN entries :
        \A j \in DOMAIN entries : j > k => entries[j].metric # entries[k].metric } }

options_thresholds(sc) == ObjectLiteral(ThresholdEntries(sc))

(***************************************************************************)
(* Responses of the endpoint.  dur indexes DurValues (milliseconds); body  *)
(* is "null" (no body), "ok", or "error" (a body containing 'error').      *)
(***************************************************************************)
DurValues == <<200, 700, 12000>>

Responses ==
  { [status |-> 200, dur |-> 1, body |-> "ok"],
    [status |-> 200, dur |-> 2, body |-> "ok"],
    [status |-> 200, dur |-> 3, body |-> "ok"],
    [status |-> 201, dur |-> 1, body |-> "ok"],
    [status |-> 200, dur |-> 1, body |-> "error"],
    [status |-> 500, dur |-> 1, body |-> "error"],
    [status |-> 0, dur |-> 3, body |-> "null"] }

NoResp == [status |-> -1, dur |-> 1, body |-> "null"]

(* k6's built-in http_req_failed: a response outside 200..399 *)
HttpReqFailed(r) == r.status < 200 \/ r.status > 399

(***************************************************************************)
(* check(response, {...}) of each iteration function.                      *)
(***************************************************************************)
(* a check that looks at the status only *)
check_loadStatusOnly(r) == r.status = 200 \/ r.status = 202

check_load(r) ==
  /\ r.status = 200 \/ r.status = 202
  /\ DurValues[r.dur] < 1000
  /\ r.body = "null" \/ r.body # "error"

check_loadv2(r) ==
  /\ r.status = 200 \/ r.status = 202
  /\ DurValues[r.dur] < 10000

check_stress(r) ==
  /\ r.status = 200 \/ r.status = 202
  /\ DurValues[r.dur] < 10000

Check(sc, r) ==
  CASE sc = "load" -> check_load(r)
    [] sc = "loadv2" -> check_loadv2(r)
    [] OTHER -> check_stress(r)

(***************************************************************************)
(* Metrics Aggregator.  Rates keep (total, truthy), the duration Trend     *)
(* keeps a count per duration value, Counters keep a sum.                  *)
(***************************************************************************)
EmptyAgg ==
  [ reqs |-> 0, failed |-> 0, dur |-> <<0, 0, 0>>,
    errN |-> 0, errTrue |-> 0,
    succN |-> 0, succTrue |-> 0, total_requests |-> 0, trendN |-> 0 ]

B2N(b) == IF b THEN 1 ELSE 0

(* the samples http.post emits for a response: http_reqs, http_req_failed,
   http_req_duration *)
RecordHttp(a, r) ==
  [ a EXCEPT !.reqs = @ + 1,
             !.failed = @ + B2N(HttpReqFailed(r)),
             !.dur = [ @ EXCEPT ![r.dur] = @ + 1 ] ]

(* an iteration that samples 'errors' only when the check failed *)
RecordCustomErrorsOnFailure(a, sc, ok) ==
  IF sc = "stress"
  THEN [ a EXCEPT !.total_requests = @ + 1, !.trendN = @ + 1,
                  !.succN = @ + 1, !.succTrue = @ + B2N(ok),
                  !.errN = @ + B2N(~ok), !.errTrue = @ + B2N(~ok) ]
  ELSE [ a EXCEPT !.errN = @ + B2N(~ok), !.errTrue = @ + B2N(~ok) ]

(* the custom metrics an iteration adds after the POST *)
RecordCustom(a, sc, ok) ==
  IF sc = "stress"
  THEN [ a EXCEPT !.total_requests = @ + 1, !.trendN = @ + 1,
                  !.succN = @ + 1, !.succTrue = @ + B2N(ok),
                  !.errN = @ + 1, !.errTrue = @ + B2N(~ok) ]
  ELSE [ a EXCEPT !.errN = @ + 1, !.errTrue = @ + B2N(~ok) ]

TrendCount(d) == d[1] + d[2] + d[3]

RECURSIVE CumDur(_, _)
CumDur(d, i) == IF i = 0 THEN 0 ELSE d[i] + CumDur(d, i - 1)

(* p(q) of the duration Trend, by nearest rank; 0 for an empty Trend *)
Percentile(d, q) ==
  IF TrendCount(d) = 0 THEN 0
  ELSE DurValues[ CHOOSE i \in 1..3 :
          /\ CumDur(d, i) * 100 >= q * TrendCount(d)
          /\ \A j \in 1..3 : j < i => CumDur(d, j) * 100 < q * TrendCount(d) ]

RateBelow(trues, total, num, den) == total = 0 \/ trues * den < num * total

(***************************************************************************)
(* Threshold Evaluator: a predicate is a pure function of the snapshot.    *)
(***************************************************************************)
ThresholdHolds(th, a) ==
  CASE th.stat = "p95" -> Percentile(a.dur, 95) < th.num
    [] th.stat = "p99" -> Percentile(a.dur, 99) < th.num
    [] th.metric = "http_req_failed" -> RateBelow(a.failed, a.reqs, th.num, th.den)
    [] OTHER -> RateBelow(a.errTrue, a.errN, th.num, th.den)

FailingThresholds(ths, a) == { th \in ths : ~ThresholdHolds(th, a) }

(***************************************************************************)
(* setup() and teardown(data) of the load and stress scripts.              *)
(***************************************************************************)
NoContext == [startTime |-> "undefined"]

(* a setup hook that returns nothing *)
setup_NoReturn == NoContext

setup == [startTime |-> "Date"]

(* teardown computes (new Date() - data.startTime) / 1000 from its argument *)
teardown(data) == data

(***************************************************************************)
(* VU Pool.  A VirtualUser: lifecycle state st, position pc in its         *)
(* iteration loop ("top": between iterations, "post": request in flight,   *)
(* "sleep": think time), what its iterations did so far, and whether it    *)
(* was inside an iteration when it was marked Stopping (midStop).          *)
(***************************************************************************)
VUIds == 1..(MaxVUs + 1)

NewVU ==
  [ st |-> "None", pc |-> "top", started |-> 0, finished |-> 0, posts |-> 0,
    nsamples |-> 0, sample |-> "none", logged |-> FALSE, resp |-> NoResp,
    midStop |-> FALSE ]

Active(pool) == { v \in VUIds : pool[v].st \in {"Starting", "Running"} }

Unused(pool) == { v \in VUIds : pool[v].st = "None" }

Live(pool) == { v \in VUIds : pool[v].st \in {"Starting", "Running", "Stopping"} }

(* iterations started so far, over all VUs *)
RECURSIVE SumStarted(_, _)
SumStarted(pool, n) == IF n = 0 THEN 0 ELSE pool[n].started + SumStarted(pool, n - 1)

Started(pool) == SumStarted(pool, MaxVUs + 1)

(* the n lowest / highest ordinals of a set of ids *)
Lowest(S, n) == { v \in S : Cardinality({ w \in S : w < v }) < n }

Highest(S, n) == { v \in S : Cardinality({ w \in S : w > v }) < n }

(* reconcile(targetCount): spawn up to the target, or mark the excess
   most recently started VUs Stopping; nothing is spawned once the
   cancellation token is set *)
Reconcile(pool, tgt, cancelled) ==
  LET n == Cardinality(Active(pool)) IN
  IF n < tgt /\ ~cancelled
  THEN [ v \in VUIds |->
           IF v \in Lowest(Unused(pool), tgt - n)
           THEN [ pool[v] EXCEPT !.st = "Starting" ] ELSE pool[v] ]
  ELSE IF n > tgt
  THEN [ v \in VUIds |->
           IF v \in Highest(Active(pool), n - tgt)
           THEN [ pool[v] EXCEPT !.st = "Stopping", !.midStop = pool[v].pc # "top" ]
           ELSE pool[v] ]
  ELSE pool

(***************************************************************************)
(* The Trend aggregate before any sample, and the state of the tools that  *)
(* do not take part in an engine run.                                      *)
(***************************************************************************)
EmptyTrend == [count |-> 0, min |-> 0, max |-> 0, sum |-> 0]

AggIdle ==
  /\ samples = [ v \in VUIds |-> << >> ]
  /\ recordedN = [ v \in VUIds |-> 0 ]
  /\ trend = EmptyTrend

(* auth-helper before any call *)
MaxCalls == 2

CallIds == 1..MaxCalls

NoToken == [appId |-> "", appPassword |-> "", serial |-> 0]

NoCall == [st |-> "idle", appId |-> "", appPassword |-> "", token |-> NoToken,
           error |-> "", fromCache |-> FALSE]

AuthIdle ==
  /\ tokenCache = << >>
  /\ dateNow = 0
  /\ calls = [ c \in CallIds |-> NoCall ]
  /\ issued = 0
  /\ cleared = FALSE

(* verify-setup not started *)
VerifyIdle ==
  /\ world = [absent |-> {}, empty |-> {}]
  /\ vpc = 0
  /\ hasErrors = FALSE
  /\ hasWarnings = FALSE
  /\ envOk = [local |-> TRUE, stage |-> TRUE, prod |-> TRUE]
  /\ hints = FALSE
  /\ summary = "none"
  /\ exitCode = -1

(* generate-token not started *)
NoHeader == [scheme |-> "", token |-> NoToken]

GenIdle ==
  /\ authHeader = NoHeader
  /\ genArgs = [environment |-> "local", set |-> {}]
  /\ gpc = "idle"
  /\ genOut = << >>
  /\ genErr = ""
  /\ genExit = -1

(* no stress iteration tagged, no activity-factory call made *)
Undefined == [undefined |-> TRUE]

LibIdle ==
  /\ vuCtx = [vu |-> 0, active |-> 0]
  /\ phaseTag = "none"
  /\ factoryCall = "none"
  /\ factoryIn = Undefined
  /\ factoryOut = Undefined

ToolIdle ==
  /\ AggIdle
  /\ AuthIdle
  /\ VerifyIdle
  /\ GenIdle
  /\ LibIdle

(***************************************************************************)
(* Script state while the engine runs: the scripts initialised without a   *)
(* configuration error.                                                    *)
(***************************************************************************)
NoEnv ==
  [ ENV |-> "unset", endpoints |-> {}, appIds |-> {}, tenantIds |-> {},
    token |-> FALSE, BOT_ENDPOINT |-> FALSE ]

NoConfig ==
  [ endpoint |-> "undefined", health |-> "undefined", appId |-> "undefined",
    tenantId |-> "undefined", token |-> FALSE ]

NoSmokeResp == [status |-> -1, slow |-> FALSE]

ScriptIdle ==
  /\ env = NoEnv
  /\ initState = "ok"
  /\ initError = ""
  /\ config = NoConfig
  /\ requests = << >>
  /\ spc = "start"
  /\ healthResp = -1
  /\ smokeResp = NoSmokeResp
  /\ smokeLogs = << >>

(* the engine before any run, for the parts checked on their own *)
EngineIdle ==
  /\ script = "stress"
  /\ stages = DefaultStages
  /\ ctrl = "Idle"
  /\ status = "None"
  /\ clock = 0
  /\ target = 0
  /\ cancel = FALSE
  /\ extStop = FALSE
  /\ vus = [ v \in VUIds |-> NewVU ]
  /\ agg = EmptyAgg
  /\ logs = 0
  /\ ctx = NoContext
  /\ tdData = NoContext
  /\ tdRuns = 0
  /\ setupRuns = 0
  /\ evalFailed = {}
  /\ abortCause = {}
  /\ result = {}

(***************************************************************************)
(* Run Controller and its tick loop.                                       *)
(***************************************************************************)
Init ==
  /\ script \in {"load", "loadv2", "stress"}
  /\ stages \in Profiles
  /\ ctrl = "Idle"
  /\ status = "None"
  /\ clock = 0
  /\ target = 0
  /\ cancel = FALSE
  /\ extStop = FALSE
  /\ vus = [ v \in VUIds |-> NewVU ]
  /\ agg = EmptyAgg
  /\ logs = 0
  /\ ctx = NoContext
  /\ tdData = NoContext
  /\ tdRuns = 0
  /\ setupRuns = 0
  /\ evalFailed = {}
  /\ abortCause = {}
  /\ result = {}
  /\ ScriptIdle
  /\ ToolIdle

(* Idle -> Setup: the one-time setup hook produces the context *)
StartRun ==
  /\ ctrl = "Idle"
  /\ ctrl' = "Setup"
  /\ ctx' = setup
  /\ setupRuns' = setupRuns + 1
  /\ UNCHANGED <<script, stages, status, clock, target, cancel, extStop, vus,
                 agg, logs, tdData, tdRuns, evalFailed, abortCause, result,
                 scriptVars, toolVars>>

(* Setup -> Staged-Execution: start the scheduler clock *)
BeginStaged ==
  /\ ctrl = "Setup"
  /\ ctrl' = "Staged"
  /\ clock' = 0
  /\ UNCHANGED <<script, stages, status, target, cancel, extStop, vus, agg,
                 logs, ctx, tdData, tdRuns, setupRuns, evalFailed, abortCause,
                 result, scriptVars, toolVars>>

(* the thresholds whose failure aborts the run *)
AbortingThresholds(ths, a) == { th \in FailingThresholds(ths, a) : th.abortOnFail }

(* a tick that lets an aborting run fall back to Staged-Execution *)
TickCtrlResume(c, breach) == IF breach THEN "Aborting" ELSE "Staged"

(* controller state after a tick *)
TickCtrl(c, breach) == IF breach THEN "Aborting" ELSE c

(* target concurrency of the tick at time now *)
TickTarget(stop, now) ==
  IF stop \/ now >= TotalDuration(stages) THEN 0 ELSE StageTarget(stages, now)

(* one tick: evaluate the thresholds on the snapshot, abort on an
   abort-on-fail failure, reconcile the pool with the target *)
Tick ==
  /\ ctrl \in {"Staged", "Aborting"}
  /\ LET failing == FailingThresholds(options_thresholds(script), agg)
         aborting == AbortingThresholds(options_thresholds(script), agg)
         breach == aborting # {}
         now == Min(clock + 1, TotalDuration(stages))
         stop == cancel \/ breach
     IN  /\ clock' = now
         /\ evalFailed' = { th.metric : th \in failing }
         /\ ctrl' = TickCtrl(ctrl, breach)
         /\ status' = IF breach THEN "AbortedBySLA" ELSE status
         /\ abortCause' = IF breach THEN { th.metric : th \in aborting }
                          ELSE abortCause
         /\ cancel' = stop
         /\ target' = TickTarget(stop, now)
         /\ vus' = Reconcile(vus, TickTarget(stop, now), stop)
  /\ UNCHANGED <<script, stages, extStop, agg, logs, ctx, tdData, tdRuns,
                 setupRuns, result, scriptVars, toolVars>>

(* an external cancellation request *)
ExternalStop ==
  /\ ctrl = "Staged"
  /\ ctrl' = "Aborting"
  /\ cancel' = TRUE
  /\ extStop' = TRUE
  /\ target' = 0
  /\ UNCHANGED <<script, stages, status, clock, vus, agg, logs, ctx, tdData,
                 tdRuns, setupRuns, evalFailed, abortCause, result, scriptVars, toolVars>>

EngineFrame ==
  UNCHANGED <<script, stages, ctrl, status, clock, target, cancel, extStop,
              ctx, tdData, tdRuns, setupRuns, evalFailed, abortCause, result,
              scriptVars, toolVars>>

(* a loop that starts iterations without looking at the cancellation token *)
TopOfLoopNoCancel(u, cancelled) ==
  /\ u.st \in {"Starting", "Running"}
  /\ u.pc = "top"

(* top of the VU loop: the Stopping mark and the cancellation token are
   checked before an iteration starts *)
TopOfLoop(u, cancelled) ==
  /\ u.st \in {"Starting", "Running"}
  /\ u.pc = "top"
  /\ ~cancelled

(* the iteration function builds the activity and POSTs it *)
StartIteration(v) ==
  /\ ctrl \in {"Staged", "Aborting"}
  /\ TopOfLoop(vus[v], cancel)
  /\ Started(vus) < MaxIter
  /\ vus' = [ vus EXCEPT ![v].st = "Running", ![v].pc = "post",
                         ![v].started = @ + 1, ![v].posts = @ + 1 ]
  /\ UNCHANGED <<agg, logs>>
  /\ EngineFrame

(* an iteration whose error log reads response.body.substring without
   guarding a missing body: the log line of a bodiless failure is lost *)
IterationResultUnguardedBody(u, sc, r) ==
  [ u EXCEPT !.pc = "sleep", !.nsamples = @ + 1,
             !.sample = IF Check(sc, r) THEN "ok" ELSE "err",
             !.logged = ~Check(sc, r) /\ r.body # "null", !.resp = r ]

(* what the iteration function does when http.post returns r: check,
   errorRate.add(!success), console.error on failure *)
IterationResult(u, sc, r) ==
  [ u EXCEPT !.pc = "sleep", !.nsamples = @ + 1,
             !.sample = IF Check(sc, r) THEN "ok" ELSE "err",
             !.logged = ~Check(sc, r), !.resp = r ]

Respond(v) ==
  /\ vus[v].pc = "post"
  /\ \E r \in Responses :
       /\ vus' = [ vus EXCEPT ![v] = IterationResult(vus[v], script, r) ]
       /\ agg' = RecordCustom(RecordHttp(agg, r), script, Check(script, r))
       /\ logs' = logs + B2N(vus'[v].logged)
  /\ EngineFrame

(* the think-time sleep ends: the iteration returns to the VU loop *)
Wake(v) ==
  /\ vus[v].pc = "sleep"
  /\ vus' = [ vus EXCEPT ![v].pc = "top", ![v].finished = @ + 1,
                         ![v].sample = "none", ![v].logged = FALSE,
                         ![v].resp = NoResp ]
  /\ UNCHANGED <<agg, logs>>
  /\ EngineFrame

(* a VU leaves the pool *)
StopVU(u) == [ u EXCEPT !.st = "Stopped" ]

(* a pool that stops a VU wherever it is in its iteration *)
CanExitAnywhere(u) == TRUE

(* a VU leaves only between iterations *)
CanExit(u) == u.pc = "top"

Exit(v) ==
  /\ vus[v].st \in {"Starting", "Running", "Stopping"}
  /\ vus[v].st = "Stopping" \/ cancel
  /\ CanExit(vus[v])
  /\ vus' = [ vus EXCEPT ![v] = StopVU(vus[v]) ]
  /\ UNCHANGED <<agg, logs>>
  /\ EngineFrame

(* -> Teardown: once every VU is Stopped the teardown hook runs *)
Drained(pool) == Live(pool) = {}

EnterTeardown ==
  /\ ctrl \in {"Staged", "Aborting"}
  /\ ctrl = "Aborting" \/ clock >= TotalDuration(stages)
  /\ Drained(vus)
  /\ ctrl' = "Teardown"
  /\ tdData' = teardown(ctx)
  /\ tdRuns' = tdRuns + 1
  /\ UNCHANGED <<script, stages, status, clock, target, cancel, extStop, vus,
                 agg, logs, ctx, setupRuns, evalFailed, abortCause, result,
                 scriptVars, toolVars>>

(* a report that copies the outcome of the latest tick's evaluation *)
ReportLastTick ==
  /\ ctrl = "Teardown"
  /\ ctrl' = "Reported"
  /\ result' = evalFailed
  /\ status' = IF status # "None" THEN status
               ELSE IF extStop THEN "AbortedByError" ELSE "Completed"
  /\ UNCHANGED <<script, stages, clock, target, cancel, extStop, vus, agg,
                 logs, ctx, tdData, tdRuns, setupRuns, evalFailed, abortCause,
                 scriptVars, toolVars>>

(* -> Reported: the RunResult, with the thresholds evaluated on the final
   snapshot.  A run stopped from outside without an SLA failure is reported
   AbortedByError, the one status left for a run that did not complete. *)
Report ==
  /\ ctrl = "Teardown"
  /\ ctrl' = "Reported"
  /\ result' = { th.metric : th \in FailingThresholds(options_thresholds(script), agg) }
  /\ status' = IF status # "None" THEN status
               ELSE IF extStop THEN "AbortedByError" ELSE "Completed"
  /\ UNCHANGED <<script, stages, clock, target, cancel, extStop, vus, agg,
                 logs, ctx, tdData, tdRuns, setupRuns, evalFailed, abortCause,
                 scriptVars, toolVars>>

Next ==
  \/ StartRun
  \/ BeginStaged
  \/ Tick
  \/ ExternalStop
  \/ \E v \in VUIds : StartIteration(v)
  \/ \E v \in VUIds : Respond(v)
  \/ \E v \in VUIds : Wake(v)
  \/ \E v \in VUIds : Exit(v)
  \/ EnterTeardown
  \/ Report

Spec == Init /\ [][Next]_vars

(***************************************************************************)
(* The scheduling assumptions of a run: the tick timer keeps firing, a     *)
(* request in flight returns (by its timeout at the latest), a sleep ends, *)
(* a VU at the top of its loop that has to leave does so, and the          *)
(* controller's own transitions are taken when they are due.               *)
(***************************************************************************)
FairSpec ==
  /\ Spec
  /\ WF_vars(BeginStaged)
  /\ WF_vars(Tick)
  /\ \A v \in VUIds : WF_vars(Respond(v)) /\ WF_vars(Wake(v)) /\ WF_vars(Exit(v))
  /\ WF_vars(EnterTeardown)
  /\ WF_vars(Report)

(***************************************************************************)
(* The Stage Scheduler alone, stepping its clock through the default       *)
(* profile one 100 ms tick at a time.                                      *)
(***************************************************************************)
SchedInit ==
  /\ script = "load"
  /\ stages = DefaultStages
  /\ ctrl = "Staged"
  /\ status = "None"
  /\ clock = 0
  /\ target = StageTarget(DefaultStages, 0)
  /\ cancel = FALSE
  /\ extStop = FALSE
  /\ vus = [ v \in VUIds |-> NewVU ]
  /\ agg = EmptyAgg
  /\ logs = 0
  /\ ctx = NoContext
  /\ tdData = NoContext
  /\ tdRuns = 0
  /\ setupRuns = 0
  /\ evalFailed = {}
  /\ abortCause = {}
  /\ result = {}
  /\ ScriptIdle
  /\ ToolIdle

SchedTick ==
  /\ clock < SchedHorizon
  /\ clock' = clock + 1
  /\ target' = StageTarget(stages, clock + 1)
  /\ UNCHANGED <<script, stages, ctrl, status, cancel, extStop, vus, agg, logs,
                 ctx, tdData, tdRuns, setupRuns, evalFailed, abortCause, result,
                 scriptVars, toolVars>>

SpecSched == SchedInit /\ [][SchedTick]_vars

(***************************************************************************)
(* C7.  For the default profile [(10s,5),(30s,5),(10s,0)], in 100 ms       *)
(* ticks: target(0) = 0; inside the ramps target(t) is the integer nearest *)
(* to the linear interpolation (2 or 3 at t = 5 s); it is exactly the      *)
(* declared target at the stage boundaries (5 at 10 s and 40 s, 0 at       *)
(* 50 s) and throughout the hold; after the last stage it stays 0.         *)
(***************************************************************************)
Abs(x) == IF x < 0 THEN -x ELSE x

\* C7: the default profile's target at every tick is the rounded linear
\* interpolation, exact at stage boundaries and 0 after the last stage.
C7_DefaultProfileTarget ==
  /\ target >= 0
  /\ clock = 0 => target = 0
  /\ clock = 50 => target \in {2, 3}
  /\ clock <= 100 => Abs(100 * target - 5 * clock) * 2 <= 100
  /\ (clock >= 100 /\ clock <= 400) => target = 5
  /\ (clock >= 400 /\ clock <= 500) =>
        Abs(100 * target - (500 - 5 * (clock - 400))) * 2 <= 100
  /\ clock >= 500 => target = 0

C7_Witness == clock = 50 /\ target = 3

(***************************************************************************)
(* Helpers of the properties.                                              *)
(***************************************************************************)
IterationClosed(u) ==
  u.pc = "top" /\ u.finished = u.started /\ u.nsamples = u.started

(* the stress test's two SLA predicates, as the claim states them *)
StressSLABreached(a) ==
  \/ ~(Percentile(a.dur, 95) < 10000)
  \/ ~RateBelow(a.failed, a.reqs, 1, 100)

(***************************************************************************)
(* C1.  In the stress test, a tick that evaluates p(95)<10000 on           *)
(* http_req_duration or rate<0.01 on http_req_failed to false moves the    *)
(* run to Aborting with status AbortedBySLA and target concurrency 0 in    *)
(* that same tick; from then on the live VUs eventually number 0; and a    *)
(* Stopped VU has completed every iteration it started.                    *)
(***************************************************************************)
C1_AbortStep ==
  (Tick /\ script = "stress" /\ StressSLABreached(agg))
    => (ctrl' = "Aborting" /\ status' = "AbortedBySLA" /\ target' = 0)

\* C1: a stress run whose abortOnFail threshold fails aborts with
\* AbortedBySLA and target 0 in that tick, the live VUs eventually number 0,
\* and no stopped VU left an iteration unfinished.
C1_AbortOnFailDrains ==
  /\ [][C1_AbortStep]_vars
  /\ [](script = "stress" =>
          \A v \in VUIds : vus[v].st = "Stopped" => IterationClosed(vus[v]))
  /\ (script = "stress" /\ status = "AbortedBySLA") ~> (Live(vus) = {})

C1_Witness ==
  /\ script = "stress"
  /\ status = "AbortedBySLA"
  /\ Live(vus) = {}
  /\ \E v \in VUIds : vus[v].midStop /\ vus[v].st = "Stopped"

(***************************************************************************)
(* C2.  A Stopped VU is between iterations and every iteration it started  *)
(* has finished and recorded its sample: a VU marked Stopping inside an    *)
(* iteration reaches Stopped only after that iteration completed.          *)
(***************************************************************************)
C2_StoppedAfterCompletion ==
  \A v \in VUIds : vus[v].st = "Stopped" => IterationClosed(vus[v])

C2_Witness ==
  \E v \in VUIds :
    /\ vus[v].st = "Stopped"
    /\ vus[v].midStop
    /\ vus[v].started >= 1
    /\ ~cancel

(***************************************************************************)
(* C4.  (as claimed) A default load test run passes only if all three      *)
(* documented thresholds hold on the final metrics: http_req_failed        *)
(* rate<0.01, http_req_duration p(95)<500 and p(99)<1000.                  *)
(***************************************************************************)
RunPassed == ctrl = "Reported" /\ status = "Completed" /\ result = {}

DocumentedThresholdsMet(a) ==
  /\ RateBelow(a.failed, a.reqs, 1, 100)
  /\ Percentile(a.dur, 95) < 500
  /\ Percentile(a.dur, 99) < 1000

\* C4 (as claimed): a passing default load run met all three documented
\* thresholds.
C4_AllDocumentedThresholdsGate ==
  (script = "load" /\ RunPassed) => DocumentedThresholdsMet(agg)

(***************************************************************************)
(* C5.  While a VU is in its think time after a response: if the response  *)
(* was a network error, a non-2xx status or failed a check, the iteration  *)
(* added a truthy 'errors' sample and logged it, and the VU is still in    *)
(* the pool; every iteration sent exactly one POST (no retry); each failed *)
(* sample has one log line.  The step that takes in a response changes no  *)
(* other VU, and the step that ends the think time returns the VU to the   *)
(* top of its loop with its lifecycle state unchanged.                     *)
(***************************************************************************)
TransportFailure(r) == r.status = 0 \/ r.status < 200 \/ r.status > 299

C5_FailureRecorded ==
  /\ \A v \in VUIds :
       /\ vus[v].posts = vus[v].started
       /\ vus[v].pc = "sleep" =>
            /\ vus[v].st \in {"Running", "Stopping"}
            /\ (TransportFailure(vus[v].resp) \/ ~Check(script, vus[v].resp))
                 => (vus[v].sample = "err" /\ vus[v].logged)
  /\ agg.reqs + Cardinality({ v \in VUIds : vus[v].pc = "post" }) = Started(vus)
  /\ logs = agg.errTrue

C5_FailureStep ==
  \A v \in VUIds :
    /\ (vus[v].pc = "post" /\ vus'[v].pc # "post") =>
         /\ vus'[v].pc = "sleep"
         /\ vus'[v].st = vus[v].st
         /\ \A w \in VUIds \ {v} : vus'[w] = vus[w]
    /\ (vus[v].pc = "sleep" /\ vus'[v].pc # "sleep") =>
         /\ vus'[v].pc = "top"
         /\ vus'[v].st = vus[v].st

\* C5: a failed iteration is recorded and logged once, is not retried, and
\* neither removes its VU from the pool nor touches another VU.
C5_IterationFailureIsolated == [](C5_FailureRecorded) /\ [][C5_FailureStep]_vars

C5_Witness ==
  \E v \in VUIds :
    /\ vus[v].pc = "post"
    /\ vus[v].started = 2
    /\ logs >= 1
    /\ agg.failed >= 1
    /\ \E w \in VUIds \ {v} : vus[w].st \in {"Starting", "Running"}

(***************************************************************************)
(* C6.  The 'errors' threshold, declared without abortOnFail, never is the *)
(* cause of an abort; a run that is not aborted by an SLA threshold or an  *)
(* external stop reaches its teardown only after the last stage ended and  *)
(* reports Completed; and the final result lists 'errors' as failed        *)
(* exactly when rate<0.05 is false on the final metrics.                   *)
(***************************************************************************)
C6_NonAbortThresholdOnlyRecorded ==
  /\ "errors" \notin abortCause
  /\ status = "AbortedBySLA" => abortCause # {}
  /\ (ctrl \in {"Teardown", "Reported"} /\ abortCause = {} /\ ~extStop)
        => clock >= TotalDuration(stages)
  /\ ctrl = "Reported" =>
        /\ ("errors" \in result) <=> ~RateBelow(agg.errTrue, agg.errN, 5, 100)
        /\ (abortCause = {} /\ ~extStop) => status = "Completed"

C6_Witness ==
  /\ script = "stress"
  /\ ctrl = "Reported"
  /\ "errors" \in result
  /\ "errors" \in evalFailed
  /\ status = "Completed"
  /\ clock = TotalDuration(stages)

(***************************************************************************)
(* C8.  teardown runs at most once, and has run exactly once when the      *)
(* controller is in Teardown or Reported; when it has run, every VU is     *)
(* Stopped (or was never spawned) and between iterations, setup ran once,  *)
(* and teardown received setup's context, whose startTime is defined.      *)
(***************************************************************************)
C8_TeardownOnceAfterDrain ==
  /\ tdRuns <= 1
  /\ (tdRuns = 1) <=> (ctrl \in {"Teardown", "Reported"})
  /\ tdRuns = 1 =>
       /\ \A v \in VUIds : vus[v].st \in {"None", "Stopped"} /\ vus[v].pc = "top"
       /\ setupRuns = 1
       /\ tdData = ctx
       /\ tdData.startTime # "undefined"

C8_Witness ==
  /\ tdRuns = 1
  /\ status = "AbortedBySLA"
  /\ \E v \in VUIds : vus[v].st = "Stopped" /\ vus[v].midStop

(***************************************************************************)
(* C9.  The controller only takes the transitions Idle -> Setup ->         *)
(* Staged-Execution -> Teardown -> Reported and Staged-Execution ->        *)
(* Aborting -> Teardown, so no state is entered twice and Aborting is      *)
(* entered from Staged-Execution only; setup and teardown each run at most *)
(* once, and exactly once by the time the run is Reported; and a run that  *)
(* has left Idle eventually reaches Reported.                              *)
(***************************************************************************)
ControllerTransitions ==
  { <<"Idle", "Setup">>, <<"Setup", "Staged">>, <<"Staged", "Aborting">>,
    <<"Staged", "Teardown">>, <<"Aborting", "Teardown">>,
    <<"Teardown", "Reported">> }

C9_ControllerStep ==
  /\ ctrl' # ctrl => <<ctrl, ctrl'>> \in ControllerTransitions
  /\ setupRuns' >= setupRuns
  /\ tdRuns' >= tdRuns

C9_RunOnce ==
  /\ setupRuns <= 1
  /\ tdRuns <= 1
  /\ ctrl = "Reported" => (setupRuns = 1 /\ tdRuns = 1)

\* C9: the controller follows the lifecycle order, runs setup and teardown
\* once each, and a started run eventually is Reported.
C9_ControllerLifecycle ==
  /\ [][C9_ControllerStep]_vars
  /\ []C9_RunOnce
  /\ (ctrl # "Idle") ~> (ctrl = "Reported")

C9_Witness ==
  /\ ctrl = "Reported"
  /\ status = "AbortedBySLA"
  /\ setupRuns = 1
  /\ tdRuns = 1

(***************************************************************************)
(* C10.  Once the cancellation token is set it stays set, no VU is spawned *)
(* and no VU starts an iteration, also while the stage schedule's target   *)
(* for the current time exceeds the number of active VUs.                  *)
(***************************************************************************)
C10_CancelStep ==
  cancel =>
    /\ cancel'
    /\ \A v \in VUIds :
         /\ vus'[v].started = vus[v].started
         /\ vus[v].st = "None" => vus'[v].st = "None"
         /\ vus[v].pc = "top" => vus'[v].pc = "top"

\* C10: every step taken with the cancellation token set keeps it set,
\* spawns no VU and starts no iteration.
C10_NoWorkAfterCancel == [][C10_CancelStep]_vars

C10_Witness ==
  /\ cancel
  /\ ctrl = "Aborting"
  /\ status = "AbortedBySLA"
  /\ clock < TotalDuration(stages)
  /\ StageTarget(stages, clock) > Cardinality(Active(vus))
  /\ Unused(vus) # {}
  /\ \E v \in VUIds : vus[v].st = "Stopping" /\ vus[v].pc = "top"

(***************************************************************************)
(* Script initialisation and the requests of one VU, for the load test     *)
(* (simple-message.test.js) and the smoke test (smoke.test.js).  __ENV is  *)
(* env: the value of ENV, the set of environments whose <ENV>_BOT_ENDPOINT *)
(* is set, and whether BOT_TOKEN is set.                                   *)
(***************************************************************************)
EnvNames ==
  {"unset", "", "local", "LOCAL", "stage", "Stage", "prod", "PROD", "dev"}

Environments == {"local", "stage", "prod"}

(* a toLowerCase that leaves the string as it is *)
toLowerCaseIdentity(str) == str

(* String.prototype.toLowerCase on the values of EnvNames *)
toLowerCase(str) ==
  CASE str = "LOCAL" -> "local"
    [] str = "Stage" -> "stage"
    [] str = "PROD" -> "prod"
    [] OTHER -> str

(* const ENV = __ENV.ENV || 'local' *)
ENV(e) == IF e.ENV \in {"unset", ""} THEN "local" ELSE e.ENV

LocalDefault == "http://localhost:3978/api/messages"

(* __ENV.<name>_BOT_ENDPOINT *)
EnvEndpoint(e, name) == IF name \in e.endpoints THEN name ELSE "undefined"

(* __ENV.<name>_MICROSOFT_APP_ID *)
EnvAppId(e, name) == IF name \in e.appIds THEN name \o "-app" ELSE "undefined"

(* __ENV.<name>_MICROSOFT_APP_TENANT_ID *)
EnvTenantId(e, name) ==
  IF name \in e.tenantIds THEN name \o "-tenant" ELSE "undefined"

(* endpoint.replace('/api/messages', '/api/health') *)
HealthOf(endpoint) ==
  CASE endpoint = LocalDefault -> "http://localhost:3978/api/health"
    [] endpoint = "undefined" -> "undefined"
    [] endpoint = "local" -> "local-health"
    [] endpoint = "stage" -> "stage-health"
    [] endpoint = "bot" -> "bot-health"
    [] OTHER -> "prod-health"

(* the switch over ENV.toLowerCase(): the config object, or "throw" *)
ConfigSwitch(e) ==
  LET name == toLowerCase(ENV(e)) IN
  IF name = "local"
  THEN [ endpoint |-> IF "local" \in e.endpoints THEN "local" ELSE LocalDefault,
         appId |-> EnvAppId(e, name), tenantId |-> EnvTenantId(e, name),
         token |-> e.token ]
  ELSE IF name \in {"stage", "prod"}
  THEN [ endpoint |-> EnvEndpoint(e, name),
         appId |-> EnvAppId(e, name), tenantId |-> EnvTenantId(e, name),
         token |-> e.token ]
  ELSE "throw"

SwitchThrows(e) == toLowerCase(ENV(e)) \notin {"local", "stage", "prod"}

(* the load test validates the endpoint after the switch; the smoke test
   has no such check *)
ValidatesEndpoint(sc) == sc = "load"

(* the smoke test of LOAD_TEST_MODE has no switch: BOT_ENDPOINT or the
   local default, no credentials *)
HasSwitch(sc) == sc \in {"load", "smoke"}

BotEndpoint(e) == IF e.BOT_ENDPOINT THEN "bot" ELSE LocalDefault

InitThrows(sc, e) ==
  /\ HasSwitch(sc)
  /\ \/ SwitchThrows(e)
     \/ ValidatesEndpoint(sc) /\ ConfigSwitch(e).endpoint = "undefined"

(* the message of the Error thrown at the top level *)
InitMessage(sc, e) ==
  IF SwitchThrows(e) THEN "Unknown environment: " \o ENV(e)
  ELSE "Missing bot endpoint for environment: " \o ENV(e)

ScriptInit0 ==
  /\ \/ /\ script \in {"load", "smoke"}
        /\ env \in [ ENV : EnvNames, endpoints : SUBSET Environments,
                     appIds : SUBSET Environments,
                     tenantIds : {{}, Environments},
                     token : BOOLEAN, BOT_ENDPOINT : {FALSE} ]
     \/ /\ script = "smokev2"
        /\ env \in [ ENV : {"unset"}, endpoints : {{}}, appIds : {{}},
                     tenantIds : {{}}, token : {FALSE},
                     BOT_ENDPOINT : BOOLEAN ]
  /\ initState = "pending"
  /\ initError = ""
  /\ config = NoConfig
  /\ requests = << >>
  /\ spc = "start"
  /\ healthResp = -1
  /\ smokeResp = NoSmokeResp
  /\ smokeLogs = << >>
  /\ stages = DefaultStages
  /\ ctrl = "Idle"
  /\ status = "None"
  /\ clock = 0
  /\ target = 0
  /\ cancel = FALSE
  /\ extStop = FALSE
  /\ vus = [ v \in VUIds |-> NewVU ]
  /\ agg = EmptyAgg
  /\ logs = 0
  /\ ctx = NoContext
  /\ tdData = NoContext
  /\ tdRuns = 0
  /\ setupRuns = 0
  /\ evalFailed = {}
  /\ abortCause = {}
  /\ result = {}
  /\ ToolIdle

(* the script's top level is evaluated: an exception ends the run *)
ScriptInit ==
  /\ initState = "pending"
  /\ IF InitThrows(script, env)
     THEN /\ initState' = "threw"
          /\ initError' = InitMessage(script, env)
          /\ UNCHANGED config
     ELSE /\ initState' = "ok"
          /\ initError' = ""
          /\ config' =
               IF HasSwitch(script)
               THEN [ endpoint |-> ConfigSwitch(env).endpoint,
                      health |-> HealthOf(ConfigSwitch(env).endpoint),
                      appId |-> ConfigSwitch(env).appId,
                      tenantId |-> ConfigSwitch(env).tenantId,
                      token |-> ConfigSwitch(env).token ]
               ELSE [ endpoint |-> BotEndpoint(env),
                      health |-> HealthOf(BotEndpoint(env)),
                      appId |-> "undefined", tenantId |-> "undefined",
                      token |-> FALSE ]
  /\ UNCHANGED <<env, requests, spc, healthResp, smokeResp, smokeLogs,
                 engineVars, toolVars>>

(* Authorization header of the load test: only added when a token is set *)
LoadHeaders(cfg) == IF cfg.token THEN "Bearer token" ELSE "absent"

(* Authorization header of the smoke test: always present; the smoke test
   of LOAD_TEST_MODE sends none *)
SmokeHeaders(cfg) == IF cfg.token THEN "Bearer token" ELSE ""

(* one iteration of the load test: http.post(config.endpoint, ...) *)
LoadIteration ==
  /\ script = "load"
  /\ initState = "ok"
  /\ Len(requests) < MaxIter
  /\ requests' = Append(requests, [ method |-> "POST", url |-> config.endpoint,
                                    auth |-> LoadHeaders(config) ])
  /\ UNCHANGED <<env, initState, initError, config, spc, healthResp, smokeResp,
                 smokeLogs, engineVars, toolVars>>

(* the statuses a health endpoint answers with; 0 is no answer *)
HealthStatuses == {200, 503, 0}

(* the responses of the message endpoint: status, and a duration under
   5000 ms or not *)
SmokeResponses ==
  [ status : {200, 202, 201, 401, 403, 404, 500, 0}, slow : BOOLEAN ]

(* the line the health group prints *)
HealthLine(st) ==
  IF st = 200 THEN "Health check passed" ELSE "Health check returned"

(* smoke test, step 1: the health check, skipped without a health endpoint *)
SmokeHealth ==
  /\ script \in {"smoke", "smokev2"}
  /\ initState = "ok"
  /\ spc = "start"
  /\ spc' = "health-done"
  /\ IF config.health # "undefined"
     THEN \E st \in HealthStatuses :
            /\ requests' = Append(requests, [ method |-> "GET",
                                              url |-> config.health,
                                              auth |-> "absent" ])
            /\ healthResp' = st
            /\ smokeLogs' = Append(smokeLogs, HealthLine(st))
     ELSE UNCHANGED <<requests, healthResp, smokeLogs>>
  /\ UNCHANGED <<env, initState, initError, config, smokeResp, engineVars,
                 toolVars>>

(* check(response, {...}) of the message group *)
SmokeChecks(sc, r) ==
  /\ r.status # 0
  /\ r.status = 200 \/ r.status = 202
  /\ sc = "smoke" => r.status \notin {401, 403, 500}
  /\ ~r.slow

(* an if-chain whose server-error branch takes every status from 200 *)
SmokeOutcomeServerErrorFrom200(sc, r) ==
  IF sc = "smoke"
  THEN CASE r.status = 401 -> "Authentication failed"
         [] r.status = 403 -> "Forbidden"
         [] r.status = 404 -> "Not Found"
         [] r.status >= 200 -> "Server error"
         [] OTHER -> "Unexpected status"
  ELSE CASE r.status = 200 \/ r.status = 202 -> "Message sent successfully"
         [] r.status = 404 -> "Not Found"
         [] r.status >= 200 -> "Server error"
         [] OTHER -> "Unexpected status"

(* the if-chain over response.status: the line it prints *)
SmokeOutcome(sc, r) ==
  IF sc = "smoke"
  THEN CASE r.status = 401 -> "Authentication failed"
         [] r.status = 403 -> "Forbidden"
         [] r.status = 404 -> "Not Found"
         [] r.status >= 500 -> "Server error"
         [] r.status = 200 \/ r.status = 202 -> "Message sent successfully"
         [] OTHER -> "Unexpected status"
  ELSE CASE r.status = 200 \/ r.status = 202 -> "Message sent successfully"
         [] r.status = 404 -> "Not Found"
         [] r.status >= 500 -> "Server error"
         [] OTHER -> "Unexpected status"

(* smoke test, step 2: http.post(config.endpoint, ...), the checks and the
   lines printed for the response *)
SmokePost ==
  /\ script \in {"smoke", "smokev2"}
  /\ initState = "ok"
  /\ spc = "health-done"
  /\ spc' = "done"
  /\ requests' = Append(requests, [ method |-> "POST", url |-> config.endpoint,
                                    auth |-> IF script = "smoke"
                                             THEN SmokeHeaders(config)
                                             ELSE "absent" ])
  /\ \E r \in SmokeResponses :
       /\ smokeResp' = r
       /\ smokeLogs' =
            smokeLogs \o << SmokeOutcome(script, r) >>
              \o (IF ~SmokeChecks(script, r) THEN << "Some checks failed" >>
                  ELSE << >>)
  /\ UNCHANGED <<env, initState, initError, config, healthResp, engineVars,
                 toolVars>>

ScriptNext ==
  \/ ScriptInit
  \/ LoadIteration
  \/ SmokeHealth
  \/ SmokePost

SpecScript == ScriptInit0 /\ [][ScriptNext]_vars

(***************************************************************************)
(* C3.  (as claimed) In the load test and in the smoke test, a run whose   *)
(* ENV names no known environment, or whose selected environment has no    *)
(* endpoint configured, issues no HTTP request.                            *)
(***************************************************************************)
ConfigurationError(e) ==
  \/ toLowerCase(ENV(e)) \notin {"local", "stage", "prod"}
  \/ /\ toLowerCase(ENV(e)) \in {"stage", "prod"}
     /\ toLowerCase(ENV(e)) \notin e.endpoints

\* C3 (as claimed): with a configuration error no request is ever sent.
C3_NoTrafficOnConfigError == ConfigurationError(env) => requests = << >>

(***************************************************************************)
(* Metrics Aggregator, Trend metric: the stress test's VUs record their    *)
(* response times in response_time_trend, responseTrend.add(duration), in  *)
(* any interleaving.  record(sample) is one critical section (spec.md 4.4  *)
(* and 5); the update keeps count, min, max and sum.                       *)
(***************************************************************************)
MaxSamples == 2

Max(a, b) == IF a > b THEN a ELSE b

TrendValues == { DurValues[i] : i \in 1..Len(DurValues) }

SampleSeqs == UNION { [1..n -> TrendValues] : n \in 0..MaxSamples }

(* a Trend update that keeps the latest sample as its maximum *)
TrendAddKeepLast(t, x) ==
  [ count |-> t.count + 1,
    min   |-> IF t.count = 0 THEN x ELSE Min(t.min, x),
    max   |-> x,
    sum   |-> t.sum + x ]

TrendAdd(t, x) ==
  [ count |-> t.count + 1,
    min   |-> IF t.count = 0 THEN x ELSE Min(t.min, x),
    max   |-> IF t.count = 0 THEN x ELSE Max(t.max, x),
    sum   |-> t.sum + x ]

AggInit ==
  /\ samples \in [ VUIds -> SampleSeqs ]
  /\ recordedN = [ v \in VUIds |-> 0 ]
  /\ trend = EmptyTrend
  /\ EngineIdle
  /\ ScriptIdle
  /\ LibIdle
  /\ AuthIdle
  /\ VerifyIdle
  /\ GenIdle

(* VU v records its next sample *)
RecordSample(v) ==
  /\ recordedN[v] < Len(samples[v])
  /\ trend' = TrendAdd(trend, samples[v][recordedN[v] + 1])
  /\ recordedN' = [recordedN EXCEPT ![v] = @ + 1]
  /\ UNCHANGED <<samples, engineVars, scriptVars, authVars, verifyVars,
                 genVars, libVars>>

AggNext == \E v \in VUIds : RecordSample(v)

SpecAgg == AggInit /\ [][AggNext]_vars

(* the samples recorded so far, VU by VU instead of in recording order *)
RECURSIVE RecordedByVU(_)
RecordedByVU(n) ==
  IF n = 0 THEN << >>
  ELSE RecordedByVU(n - 1) \o SubSeq(samples[n], 1, recordedN[n])

Reverse(q) == [ i \in 1..Len(q) |-> q[Len(q) + 1 - i] ]

RECURSIVE Sequentially(_, _)
Sequentially(q, n) ==
  IF n = 0 THEN EmptyTrend ELSE TrendAdd(Sequentially(q, n - 1), q[n])

AllRecorded == \A v \in VUIds : recordedN[v] = Len(samples[v])

(***************************************************************************)
(* C11.  Whatever the interleaving in which the VUs recorded their         *)
(* samples, the Trend aggregate (count, min, max, sum) equals the one      *)
(* obtained by recording the same samples sequentially VU by VU, and in    *)
(* the reverse of that order; its count is the number of samples recorded. *)
(***************************************************************************)
C11_TrendOrderIndependent ==
  LET q == RecordedByVU(MaxVUs + 1) IN
    /\ trend = Sequentially(q, Len(q))
    /\ trend = Sequentially(Reverse(q), Len(q))
    /\ trend.count = Len(q)

C11_Witness ==
  /\ AllRecorded
  /\ trend.count = 2 * (MaxVUs + 1)
  /\ trend.min = 200
  /\ trend.max = 12000
  /\ samples[1] = <<12000, 200>>
  /\ samples[2] = <<700, 12000>>

(***************************************************************************)
(* C12.  The failed thresholds of the RunResult are exactly those that     *)
(* fail when every threshold of the script is evaluated again on the       *)
(* metrics the result carries (handleSummary writes both to the results    *)
(* file); and a step that evaluates the thresholds, in a tick or for the   *)
(* report, changes no aggregate.                                           *)
(***************************************************************************)
Reevaluated(sc, snapshot) ==
  { th.metric : th \in FailingThresholds(options_thresholds(sc), snapshot) }

C12_EvaluationStep ==
  (evalFailed' # evalFailed \/ result' # result \/ ctrl' = "Reported")
    => agg' = agg

C13_AuthorizationIffToken ==
  \A i \in 1..Len(requests) :
    requests[i].method = "POST" =>
      requests[i].auth = (IF config.token THEN "Bearer token" ELSE "absent")

(***************************************************************************)
(* lib/auth-helper.js: getBotToken and the module's token cache.  A call   *)
(* runs synchronously up to `await credentials.getToken()`; the provider's *)
(* answer resumes it in a later step, so calls of several callers          *)
(* interleave at that point.  Strings are strings; the provider issues,    *)
(* for the credentials it was given, a token that names them and a serial. *)
(***************************************************************************)
BufferMs == 60000

ExpiresInMs == 3600000

MaxIssued == 2

AppIds == {"a", "a:b"}

AppPasswords == {"c", "b:c"}

ProviderErrors == {"invalid_client", "ETIMEDOUT"}

(* instants at which something happens: around the start and around the
   end of the validity of a token stored at 0 or at 1 *)
Times == {0, 1, ExpiresInMs - BufferMs - 1, ExpiresInMs - BufferMs,
          ExpiresInMs - BufferMs + 1}

(* const cacheKey = `${appId}:${appPassword}` *)
cacheKey(appId, appPassword) == appId \o ":" \o appPassword

(* Map.prototype.set *)
MapSet(m, k, v) == [ x \in (DOMAIN m) \cup {k} |-> IF x = k THEN v ELSE m[x] ]

(* a lookup that never finds anything *)
CacheHitNever(cache, k, t) == FALSE

(* a lookup without the one-minute buffer *)
CacheHitNoBuffer(cache, k, t) == k \in DOMAIN cache /\ cache[k].expiresAt > t

(* cached && cached.expiresAt > Date.now() + 60000 *)
CacheHit(cache, k, t) == k \in DOMAIN cache /\ cache[k].expiresAt > t + BufferMs

AuthInit ==
  /\ AuthIdle
  /\ AggIdle
  /\ VerifyIdle
  /\ GenIdle
  /\ EngineIdle
  /\ ScriptIdle
  /\ LibIdle

(* getBotToken(appId, appPassword) up to its return or its await *)
getBotToken(c, appId, appPassword) ==
  /\ calls[c].st # "pending"
  /\ LET k == cacheKey(appId, appPassword) IN
       IF CacheHit(tokenCache, k, dateNow)
       THEN /\ calls' = [calls EXCEPT ![c] =
                           [ st |-> "returned", appId |-> appId,
                             appPassword |-> appPassword,
                             token |-> tokenCache[k].token, error |-> "",
                             fromCache |-> TRUE ]]
            /\ UNCHANGED issued
       ELSE /\ issued < MaxIssued
            /\ issued' = issued + 1
            /\ calls' = [calls EXCEPT ![c] =
                           [ st |-> "pending", appId |-> appId,
                             appPassword |-> appPassword,
                             token |-> [ appId |-> appId,
                                         appPassword |-> appPassword,
                                         serial |-> issued + 1 ],
                             error |-> "", fromCache |-> FALSE ]]
  /\ cleared' = FALSE
  /\ UNCHANGED <<tokenCache, dateNow>>

(* a caller of the module calls getBotToken *)
GetBotToken(c, appId, appPassword) ==
  /\ getBotToken(c, appId, appPassword)
  /\ UNCHANGED <<engineVars, scriptVars, aggVars, verifyVars, genVars, libVars>>

(* credentials.getToken() resolved: the token is cached and returned *)
getTokenResolved(c) ==
  /\ calls[c].st = "pending"
  /\ tokenCache' = MapSet(tokenCache,
                          cacheKey(calls[c].appId, calls[c].appPassword),
                          [ token |-> calls[c].token,
                            expiresAt |-> dateNow + ExpiresInMs ])
  /\ calls' = [calls EXCEPT ![c].st = "returned"]
  /\ UNCHANGED <<dateNow, issued, cleared>>

TokenResolved(c) ==
  /\ getTokenResolved(c)
  /\ UNCHANGED <<engineVars, scriptVars, aggVars, verifyVars, genVars, libVars>>

(* a catch block that also drops the key's entry from the cache *)
TokenRejectedEvicts(c, msg) ==
  /\ calls[c].st = "pending"
  /\ calls' = [calls EXCEPT ![c].st = "rejected",
                            ![c].token = NoToken,
                            ![c].error = "Failed to generate token: " \o msg]
  /\ tokenCache' =
       [ x \in (DOMAIN tokenCache)
                 \ {cacheKey(calls[c].appId, calls[c].appPassword)}
           |-> tokenCache[x] ]
  /\ UNCHANGED <<dateNow, issued, cleared, engineVars, scriptVars, aggVars,
                 verifyVars, genVars, libVars>>

(* credentials.getToken() rejected: the catch block logs and rethrows *)
getTokenRejected(c, msg) ==
  /\ calls[c].st = "pending"
  /\ calls' = [calls EXCEPT ![c].st = "rejected",
                            ![c].token = NoToken,
                            ![c].error = "Failed to generate token: " \o msg]
  /\ UNCHANGED <<tokenCache, dateNow, issued, cleared>>

TokenRejected(c, msg) ==
  /\ getTokenRejected(c, msg)
  /\ UNCHANGED <<engineVars, scriptVars, aggVars, verifyVars, genVars, libVars>>

(* clearTokenCache() *)
clearTokenCache ==
  /\ tokenCache' = << >>
  /\ cleared' = TRUE
  /\ UNCHANGED <<dateNow, calls, issued, engineVars, scriptVars, aggVars,
                 verifyVars, genVars, libVars>>

(* time passes *)
Advance ==
  /\ \E t \in Times : t > dateNow /\ dateNow' = t
  /\ UNCHANGED <<tokenCache, calls, issued, cleared, engineVars, scriptVars,
                 aggVars,
                 verifyVars, genVars, libVars>>

AuthNext ==
  \/ \E c \in CallIds, appId \in AppIds, appPassword \in AppPasswords :
        GetBotToken(c, appId, appPassword)
  \/ \E c \in CallIds : TokenResolved(c)
  \/ \E c \in CallIds, msg \in ProviderErrors : TokenRejected(c, msg)
  \/ clearTokenCache
  \/ Advance

SpecAuth == AuthInit /\ [][AuthNext]_vars

(***************************************************************************)
(* C14.  (as claimed) A token returned by getBotToken was obtained from    *)
(* the provider for the credential pair of the call that returns it, for   *)
(* all pairs of strings, also ones that contain ':'.                       *)
(***************************************************************************)
C14_TokenPerCredentialPair ==
  \A c \in CallIds :
    calls[c].st = "returned" =>
      /\ calls[c].token.appId = calls[c].appId
      /\ calls[c].token.appPassword = calls[c].appPassword

(***************************************************************************)
(* C15.  A getBotToken call returns the cached token, without invoking the *)
(* provider, exactly when the cache holds an entry for its key with        *)
(* expiresAt > now + 60000; otherwise it invokes the provider once, and    *)
(* when the provider resolves the token is stored with expiresAt = now +   *)
(* 3600000.  So a token is served from the cache only more than 60 s       *)
(* before its recorded expiry, less than 59 min after it was stored.       *)
(***************************************************************************)
C15_CallStep(c) ==
  LET k == cacheKey(calls'[c].appId, calls'[c].appPassword)
      fresh == k \in DOMAIN tokenCache
                 /\ tokenCache[k].expiresAt > dateNow + 60000
  IN  /\ fresh =>
           /\ calls'[c].st = "returned"
           /\ calls'[c].fromCache
           /\ calls'[c].token = tokenCache[k].token
           /\ issued' = issued
           /\ tokenCache[k].expiresAt - dateNow > 60000
           /\ dateNow - (tokenCache[k].expiresAt - 3600000) < 59 * 60000
      /\ ~fresh =>
           /\ calls'[c].st = "pending"
           /\ ~calls'[c].fromCache
           /\ issued' = issued + 1
      /\ tokenCache' = tokenCache

C15_ResolveStep(c) ==
  LET k == cacheKey(calls[c].appId, calls[c].appPassword)
  IN  /\ k \in DOMAIN tokenCache'
      /\ tokenCache'[k] = [ token |-> calls[c].token,
                            expiresAt |-> dateNow + 3600000 ]
      /\ issued' = issued

C15_Step ==
  \A c \in CallIds :
    /\ (calls[c].st # "pending" /\ calls'[c] # calls[c]) => C15_CallStep(c)
    /\ (calls[c].st = "pending" /\ calls'[c].st = "returned") => C15_ResolveStep(c)

\* C15: cache hit exactly for an entry with expiresAt > now + 60000, else
\* one provider call whose token is stored for one hour.
C15_CacheServesUntilBuffer ==
  /\ [][C15_Step]_vars
  /\ [](\A k \in DOMAIN tokenCache :
           tokenCache[k].expiresAt <= dateNow + 3600000)

C15_Witness ==
  /\ dateNow = 3540000
  /\ calls[1].st = "returned" /\ calls[1].fromCache
  /\ calls[2].st = "pending"
  /\ calls[2].appId = calls[1].appId
  /\ calls[2].appPassword = calls[1].appPassword
  /\ calls[1].token.appId = calls[1].appId
  /\ cacheKey(calls[1].appId, calls[1].appPassword) \in DOMAIN tokenCache
  /\ tokenCache[cacheKey(calls[1].appId, calls[1].appPassword)].expiresAt = 3600000

(***************************************************************************)
(* C19.  When the provider fails, the pending getBotToken call rejects     *)
(* with the message 'Failed to generate token: ' followed by the           *)
(* provider's message, returns no token, and the token cache is exactly    *)
(* what it was: no entry added, removed or modified.                       *)
(***************************************************************************)
C19_RejectStep ==
  \A c \in CallIds :
    (calls[c].st = "pending" /\ calls'[c].st = "rejected") =>
      /\ \E msg \in ProviderErrors :
           calls'[c].error = "Failed to generate token: " \o msg
      /\ calls'[c].token = NoToken
      /\ tokenCache' = tokenCache

\* C19: a provider failure rejects the call with the prefixed message and
\* leaves the token cache unchanged.
C19_FailureLeavesCache == [][C19_RejectStep]_vars

C19_Witness ==
  \E c \in CallIds :
    LET k == cacheKey(calls[c].appId, calls[c].appPassword) IN
      /\ calls[c].st = "rejected"
      /\ calls[c].error = "Failed to generate token: ETIMEDOUT"
      /\ k \in DOMAIN tokenCache
      /\ tokenCache[k].expiresAt = 3600000
      /\ dateNow = 3540000

(***************************************************************************)
(* C20.  (as claimed) For one credential pair, a getBotToken call made     *)
(* while an earlier call's provider request is pending starts no second    *)
(* provider request: no two calls for the same pair await the provider at  *)
(* the same time.                                                          *)
(***************************************************************************)
C20_NoSecondProviderRequest ==
  \A c1, c2 \in CallIds :
    ( /\ c1 # c2
      /\ calls[c1].st = "pending"
      /\ calls[c2].st = "pending" )
    => ~( /\ calls[c1].appId = calls[c2].appId
          /\ calls[c1].appPassword = calls[c2].appPassword )

(***************************************************************************)
(* scripts/verify-setup.js: main() runs its checks in order, each through  *)
(* printCheck or printWarning, then prints the summary and exits.          *)
(***************************************************************************)
MaxAbsent == 2

toUpperCase(e) ==
  CASE e = "local" -> "LOCAL"
    [] e = "stage" -> "STAGE"
    [] e = "prod" -> "PROD"
    [] e = "dev" -> "DEV"
    [] OTHER -> e

RequiredFiles ==
  << "package.json", ".env", "lib/auth-helper.js", "lib/activity-factory.js",
     "lib/constants.js", "tests/simple-message.test.js", "tests/smoke.test.js",
     "config/local.env.js", "config/stage.env.js", "config/prod.env.js" >>

(* checkEnvironmentCredentials(env): four required variables *)
EnvironmentCredentials(e) ==
  << toUpperCase(e) \o "_MICROSOFT_APP_ID",
     toUpperCase(e) \o "_MICROSOFT_APP_PASSWORD",
     toUpperCase(e) \o "_MICROSOFT_APP_TENANT_ID",
     toUpperCase(e) \o "_BOT_ENDPOINT" >>

OptionalVars ==
  << "TEST_USER_ID", "TEST_USER_NAME", "TEST_USER_AAD_OBJECT_ID", "SERVICE_URL" >>

Tagged(kind, names) == [ i \in 1..Len(names) |-> [kind |-> kind, name |-> names[i]] ]

(* the checks of main(), in the order of the code *)
Checks ==
  Tagged("file", RequiredFiles)
    \o << [kind |-> "dir", name |-> "node_modules"] >>
    \o << [kind |-> "exec", name |-> "k6"] >>
    \o Tagged("env", EnvironmentCredentials("local"))
    \o Tagged("env", EnvironmentCredentials("stage"))
    \o Tagged("env", EnvironmentCredentials("prod"))
    \o Tagged("optional", OptionalVars)

Items == { Checks[i].name : i \in 1..Len(Checks) }

EnvItems == { Checks[i].name : i \in { j \in 1..Len(Checks) :
                                          Checks[j].kind \in {"env", "optional"} } }

(* existsSync(path), execSync('k6 version') not throwing, !!process.env[name] *)
Passes(w, chk) ==
  IF chk.kind \in {"env", "optional"}
  THEN chk.name \notin w.absent /\ chk.name \notin w.empty
  ELSE chk.name \notin w.absent

(* the environment whose credentials include the variable *)
CredentialEnv(name) ==
  CHOOSE e \in {"local", "stage", "prod"} :
    \E j \in 1..4 : EnvironmentCredentials(e)[j] = name

(* a printCheck that never raises the flag *)
printCheckNever(errs, passed) == errs

(* a printWarning that never raises the flag *)
printWarningNever(warns, exists) == warns

(* a printCheck that assigns the flag from the latest check *)
printCheckAssign(errs, passed) == ~passed

(* printCheck: if (!passed) hasErrors = true *)
printCheck(errs, passed) == IF ~passed THEN TRUE ELSE errs

(* checkEnvVar(varName, false): a warning when unset, printCheck(true) else *)
printWarning(warns, exists) == IF ~exists THEN TRUE ELSE warns

(* the subsets of S with at most n elements *)
RECURSIVE UpTo(_, _)
UpTo(S, n) ==
  IF n = 0 THEN {{}}
  ELSE UpTo(S, n - 1) \cup { T \cup {x} : T \in UpTo(S, n - 1), x \in S }

VerifyInit ==
  /\ \E missing \in UpTo(Items, MaxAbsent) :
       \E unset \in SUBSET missing :
         /\ (missing \ unset) \subseteq EnvItems
         /\ world = [absent |-> unset, empty |-> missing \ unset]
  /\ vpc = 1
  /\ hasErrors = FALSE
  /\ hasWarnings = FALSE
  /\ envOk = [local |-> TRUE, stage |-> TRUE, prod |-> TRUE]
  /\ hints = FALSE
  /\ summary = "none"
  /\ exitCode = -1
  /\ AggIdle
  /\ AuthIdle
  /\ GenIdle
  /\ EngineIdle
  /\ ScriptIdle
  /\ LibIdle

(* the next check of main() *)
VerifyCheck ==
  /\ vpc \in 1..Len(Checks)
  /\ vpc' = vpc + 1
  /\ IF Checks[vpc].kind = "optional"
     THEN /\ hasWarnings' = printWarning(hasWarnings, Passes(world, Checks[vpc]))
          /\ hasErrors' = IF Passes(world, Checks[vpc])
                          THEN printCheck(hasErrors, TRUE) ELSE hasErrors
     ELSE /\ hasErrors' = printCheck(hasErrors, Passes(world, Checks[vpc]))
          /\ UNCHANGED hasWarnings
  /\ envOk' = IF Checks[vpc].kind = "env"
              THEN [envOk EXCEPT ![CredentialEnv(Checks[vpc].name)] =
                                    @ /\ Passes(world, Checks[vpc])]
              ELSE envOk
  /\ UNCHANGED <<world, hints, summary, exitCode, engineVars, scriptVars,
                 aggVars, authVars, genVars, libVars>>

(* the Summary section: process.exit(1) on errors, else main() returns *)
VerifySummary ==
  /\ vpc = Len(Checks) + 1
  /\ exitCode = -1
  /\ summary' = IF hasErrors THEN "errors"
                ELSE IF hasWarnings THEN "warnings" ELSE "ready"
  /\ exitCode' = IF hasErrors THEN 1 ELSE 0
  /\ hints' = (~hasErrors /\ hasWarnings /\ envOk.local)
  /\ UNCHANGED <<world, vpc, hasErrors, hasWarnings, envOk, engineVars,
                 scriptVars, aggVars, authVars, genVars, libVars>>

VerifyNext ==
  \/ VerifyCheck
  \/ VerifySummary

SpecVerify == VerifyInit /\ [][VerifyNext]_vars

(* a required check that fails in this world *)
RequiredCheckFails(w) ==
  \E i \in 1..Len(Checks) :
    Checks[i].kind # "optional" /\ ~Passes(w, Checks[i])

(***************************************************************************)
(* C16.  verify-setup ends with exit code 1 exactly when a required check  *)
(* failed (a required file, node_modules, k6 or a required variable is     *)
(* missing), and with 0 otherwise; hasErrors, once true, stays true; and   *)
(* with errors the summary is the error summary also when there are        *)
(* warnings.                                                               *)
(***************************************************************************)
C16_ExitCodeIffRequiredFailed ==
  /\ [](exitCode # -1 =>
          /\ (exitCode = 1) <=> RequiredCheckFails(world)
          /\ exitCode \in {0, 1}
          /\ hasErrors => summary = "errors"
          /\ (summary = "warnings") => ~hasErrors)
  /\ [][hasErrors => hasErrors']_vars

C16_Witness ==
  /\ exitCode = 1
  /\ summary = "errors"
  /\ hasWarnings
  /\ world.absent = {"package.json", "SERVICE_URL"}

(***************************************************************************)
(* generate-token (scripts/generate-token.js): main() reads the            *)
(* credentials of the environment given on the command line, awaits        *)
(* getAuthorizationHeader and getTokenInfo of lib/auth-helper.js and       *)
(* prints the token; any exception is caught, printed, and ends the        *)
(* process with exit code 1.  The process is caller 1 of getBotToken.      *)
(***************************************************************************)
GenEnvironments == {"local", "stage", "prod", "dev"}

GenVarSuffixes ==
  { "_MICROSOFT_APP_ID", "_MICROSOFT_APP_PASSWORD", "_MICROSOFT_APP_TENANT_ID",
    "_BOT_ENDPOINT" }

(* process.env[`${envUpper}${suffix}`] *)
ProcessEnv(args, suffix, value) ==
  IF suffix \in args.set THEN value ELSE "undefined"

(* a test that only fails when both credentials are missing *)
CredentialsMissingBoth(appId, appPassword) ==
  appId = "undefined" /\ appPassword = "undefined"

(* !appId || !appPassword *)
CredentialsMissing(appId, appPassword) ==
  appId = "undefined" \/ appPassword = "undefined"

(* getCredentials(env): the credentials, or the Error it throws *)
getCredentials(args) ==
  LET envUpper == toUpperCase(args.environment)
      appId == ProcessEnv(args, "_MICROSOFT_APP_ID", "a")
      appPassword == ProcessEnv(args, "_MICROSOFT_APP_PASSWORD", "c")
  IN  [ throws |-> CredentialsMissing(appId, appPassword),
        message |-> "Missing credentials for " \o args.environment
                      \o " environment. Please set " \o envUpper
                      \o "_MICROSOFT_APP_ID and " \o envUpper
                      \o "_MICROSOFT_APP_PASSWORD in .env file.",
        appId |-> appId,
        appPassword |-> appPassword ]

(* getAuthorizationHeader: `Bearer ${token}` *)
getAuthorizationHeader(token) == [scheme |-> "Bearer", token |-> token]

GenInit ==
  /\ authHeader = NoHeader
  /\ genArgs \in [ environment : GenEnvironments, set : SUBSET GenVarSuffixes ]
  /\ gpc = "start"
  /\ genOut = << >>
  /\ genErr = ""
  /\ genExit = -1
  /\ AuthIdle
  /\ AggIdle
  /\ VerifyIdle
  /\ EngineIdle
  /\ ScriptIdle
  /\ LibIdle

(* const credentials = getCredentials(environment), inside the try *)
GenGetCredentials ==
  /\ gpc = "start"
  /\ IF getCredentials(genArgs).throws
     THEN /\ genErr' = "Error: " \o getCredentials(genArgs).message
          /\ genExit' = 1
          /\ gpc' = "exited"
     ELSE /\ gpc' = "header"
          /\ UNCHANGED <<genErr, genExit>>
  /\ UNCHANGED <<genArgs, genOut, authHeader, authVars, engineVars,
                 scriptVars, aggVars, verifyVars, libVars>>

(* await getAuthorizationHeader(appId, appPassword): calls getBotToken *)
GenAuthorizationHeader ==
  /\ gpc = "header"
  /\ getBotToken(1, getCredentials(genArgs).appId,
                    getCredentials(genArgs).appPassword)
  /\ gpc' = IF calls'[1].st = "returned" THEN "info" ELSE "awaitHeader"
  /\ authHeader' = IF calls'[1].st = "returned"
                   THEN getAuthorizationHeader(calls'[1].token) ELSE authHeader
  /\ UNCHANGED <<genArgs, genOut, genErr, genExit, engineVars, scriptVars,
                 aggVars, verifyVars, libVars>>

(* await getTokenInfo(appId, appPassword): calls getBotToken again *)
GenTokenInfo ==
  /\ gpc = "info"
  /\ getBotToken(1, getCredentials(genArgs).appId,
                    getCredentials(genArgs).appPassword)
  /\ gpc' = IF calls'[1].st = "returned" THEN "decode" ELSE "awaitInfo"
  /\ UNCHANGED authHeader
  /\ UNCHANGED <<genArgs, genOut, genErr, genExit, engineVars, scriptVars,
                 aggVars, verifyVars, libVars>>

(* the provider answered the pending getBotToken call with a token *)
GenTokenResolved ==
  /\ gpc \in {"awaitHeader", "awaitInfo"}
  /\ getTokenResolved(1)
  /\ gpc' = IF gpc = "awaitHeader" THEN "info" ELSE "decode"
  /\ authHeader' = IF gpc = "awaitHeader"
                   THEN getAuthorizationHeader(calls[1].token) ELSE authHeader
  /\ UNCHANGED <<genArgs, genOut, genErr, genExit, engineVars, scriptVars,
                 aggVars, verifyVars, libVars>>

(* the provider failed: getBotToken throws, main's catch prints and exits *)
GenTokenRejected(msg) ==
  /\ gpc \in {"awaitHeader", "awaitInfo"}
  /\ getTokenRejected(1, msg)
  /\ genErr' = "Error: " \o calls'[1].error
  /\ genExit' = 1
  /\ gpc' = "exited"
  /\ UNCHANGED <<genArgs, genOut, authHeader, engineVars, scriptVars, aggVars,
                 verifyVars, libVars>>

(* getTokenInfo decodes the token; main prints it, or the decoding error *)
GenPrint(wellFormed) ==
  /\ gpc = "decode"
  /\ gpc' = "exited"
  /\ IF wellFormed
     THEN /\ genOut' = << calls[1].token >>
          /\ genExit' = 0
          /\ UNCHANGED genErr
     ELSE /\ genErr' = "Error: Invalid JWT token format"
          /\ genExit' = 1
          /\ UNCHANGED genOut
  /\ UNCHANGED <<genArgs, authHeader, authVars, engineVars, scriptVars,
                 aggVars, verifyVars, libVars>>

GenNext ==
  \/ GenGetCredentials
  \/ GenAuthorizationHeader
  \/ GenTokenInfo
  \/ GenTokenResolved
  \/ \E msg \in ProviderErrors : GenTokenRejected(msg)
  \/ \E wellFormed \in BOOLEAN : GenPrint(wellFormed)

SpecGen == GenInit /\ [][GenNext]_vars

(***************************************************************************)
(* C17.  When <ENV>_MICROSOFT_APP_ID or <ENV>_MICROSOFT_APP_PASSWORD is    *)
(* unset, generate-token never invokes the provider and prints no token,   *)
(* and when it has ended its exit code is 1 and its error line names both  *)
(* variables.  When both are set, whatever the tenant id and the endpoint, *)
(* a run that ended has invoked the provider: getCredentials did not fail. *)
(***************************************************************************)
C17_CredentialUnset ==
  \/ "_MICROSOFT_APP_ID" \notin genArgs.set
  \/ "_MICROSOFT_APP_PASSWORD" \notin genArgs.set

C17_MissingCredentialsFail ==
  /\ C17_CredentialUnset =>
       /\ issued = 0
       /\ genOut = << >>
       /\ gpc \in {"start", "exited"}
       /\ gpc = "exited" =>
            /\ genExit = 1
            /\ genErr = "Error: Missing credentials for " \o genArgs.environment
                          \o " environment. Please set "
                          \o toUpperCase(genArgs.environment)
                          \o "_MICROSOFT_APP_ID and "
                          \o toUpperCase(genArgs.environment)
                          \o "_MICROSOFT_APP_PASSWORD in .env file."
  /\ (~C17_CredentialUnset /\ gpc = "exited") => issued >= 1

C17_Witness ==
  /\ gpc = "exited"
  /\ genExit = 1
  /\ genArgs.environment = "stage"
  /\ genArgs.set = { "_MICROSOFT_APP_ID", "_MICROSOFT_APP_TENANT_ID",
                     "_BOT_ENDPOINT" }
  /\ genErr = "Error: Missing credentials for stage environment. Please set STAGE_MICROSOFT_APP_ID and STAGE_MICROSOFT_APP_PASSWORD in .env file."
  /\ issued = 0

(***************************************************************************)
(* C18.  In the load tests, whose thresholds literal has two               *)
(* http_req_duration entries, and in config/prod.env.js, the effective     *)
(* threshold set holds one http_req_duration entry, the p(99) one written  *)
(* last.  The p(95) entry is never evaluated: http_req_duration is         *)
(* reported as failed exactly when the p(99) limit is not met, whatever    *)
(* p(95) is, and it never causes an abort.                                 *)
(***************************************************************************)
DurationEntries(ths) == { th \in ths : th.metric = "http_req_duration" }

C18_P99Limit == IF script = "load" THEN 1000 ELSE 15000

C18_P95Limit == IF script = "load" THEN 500 ELSE 10000

C21_OneProviderCallPerRun ==
  genExit = 0 =>
    /\ issued = 1
    /\ calls[1].st = "returned"
    /\ calls[1].fromCache
    /\ authHeader.scheme = "Bearer"
    /\ genOut = << authHeader.token >>
    /\ authHeader.token.serial = 1

C21_Witness ==
  /\ genExit = 0
  /\ gpc = "exited"
  /\ genArgs.environment = "prod"
  /\ genArgs.set = { "_MICROSOFT_APP_ID", "_MICROSOFT_APP_PASSWORD" }
  /\ genOut = << [appId |-> "a", appPassword |-> "c", serial |-> 1] >>

(***************************************************************************)
(* C22.  (as claimed) The first getBotToken call made after                *)
(* clearTokenCache, for any credential pair, invokes the provider and is   *)
(* not served from the cache; clearTokenCache leaves the cache empty and   *)
(* changes neither the calls nor the clock nor the provider count.         *)
(***************************************************************************)
C22_Step ==
  /\ \A c \in CallIds :
       (cleared /\ calls[c].st # "pending" /\ calls'[c] # calls[c]) =>
         /\ calls'[c].st = "pending"
         /\ issued' = issued + 1
  /\ (cleared' /\ ~cleared) =>
       /\ tokenCache' = << >>
       /\ calls' = calls /\ dateNow' = dateNow /\ issued' = issued

\* C22 (as claimed): after clearTokenCache the next getBotToken call always
\* invokes the provider.
C22_ClearForcesRefresh == [][C22_Step]_vars

(***************************************************************************)
(* C23.  When verify-setup reaches a summary other than the error summary, *)
(* localOk, stageOk and prodOk are all true; hence in the warnings         *)
(* summary the hints guarded by localOk are always printed.                *)
(***************************************************************************)
C23_NoErrorMeansAllEnvironmentsOk ==
  /\ summary \in {"warnings", "ready"} =>
       envOk.local /\ envOk.stage /\ envOk.prod
  /\ summary = "warnings" => hints

C23_Witness ==
  /\ summary = "warnings"
  /\ hints
  /\ envOk.local
  /\ world = [absent |-> {"SERVICE_URL"}, empty |-> {}]

(***************************************************************************)
(* C24.  An unset optional variable only raises a warning: its check sets  *)
(* hasWarnings and leaves hasErrors as it was; a run in which only         *)
(* optional variables are missing never exits with 1; and the summary is   *)
(* reached only after every check has been evaluated, whatever failed      *)
(* before.                                                                 *)
(***************************************************************************)
C24_OptionalStep ==
  (vpc \in 1..Len(Checks) /\ vpc' = vpc + 1 /\ Checks[vpc].kind = "optional") =>
    /\ hasErrors' = hasErrors
    /\ ~Passes(world, Checks[vpc]) => hasWarnings'
    /\ Passes(world, Checks[vpc]) => hasWarnings' = hasWarnings

C24_OptionalOnlyWarns ==
  /\ [][C24_OptionalStep]_vars
  /\ [](exitCode # -1 =>
          /\ vpc = Len(Checks) + 1
          /\ ~RequiredCheckFails(world) => exitCode = 0)

C24_Witness ==
  /\ exitCode = 0
  /\ hasWarnings
  /\ ~hasErrors
  /\ world = [absent |-> {"TEST_USER_ID"}, empty |-> {"SERVICE_URL"}]

(***************************************************************************)
(* C25.  In the stress test the 'errors' and 'success_rate' rates are      *)
(* complementary (every iteration adds a truthy sample to exactly one),    *)
(* and the totals of both equal the 'total_requests' counter, the count of *)
(* 'response_time_trend' and the number of POST requests: those that have  *)
(* returned, and, when no request is in flight, those that were sent.      *)
(***************************************************************************)
RECURSIVE SumPosts(_, _)
SumPosts(pool, n) == IF n = 0 THEN 0 ELSE pool[n].posts + SumPosts(pool, n - 1)

C25_StressMetricsAgree ==
  script = "stress" =>
    /\ agg.errN = agg.succN
    /\ agg.succN = agg.total_requests
    /\ agg.total_requests = agg.trendN
    /\ agg.trendN = agg.reqs
    /\ agg.errTrue + agg.succTrue = agg.total_requests
    /\ (\A v \in VUIds : vus[v].pc # "post") =>
         agg.total_requests = SumPosts(vus, MaxVUs + 1)

C25_Witness ==
  /\ script = "stress"
  /\ agg.total_requests = 2
  /\ agg.errTrue = 1
  /\ agg.succTrue = 1
  /\ vus[1].finished = 1
  /\ vus[2].finished = 1

(***************************************************************************)
(* The stress iteration tags its request with getCurrentPhase()            *)
(* (tests/simple-message.test.js, stress-breakpoint).  __VU is the id k6   *)
(* gave the VU; while the profile ramps up, the VUs 1..N are active.       *)
(***************************************************************************)
MaxPhaseVUs == 151

getCurrentPhase(vu) ==
  IF vu <= 5 THEN "phase1-5vu"
  ELSE IF vu <= 10 THEN "phase2-10vu"
  ELSE IF vu <= 25 THEN "phase3-25vu"
  ELSE IF vu <= 50 THEN "phase4-50vu"
  ELSE IF vu <= 75 THEN "phase5-75vu"
  ELSE IF vu <= 100 THEN "phase6-100vu"
  ELSE IF vu <= 150 THEN "phase7-150vu"
  ELSE "phase8-200vu"

PhaseInit ==
  /\ vuCtx \in { [vu |-> i, active |-> n] : i, n \in 1..MaxPhaseVUs }
  /\ vuCtx.vu <= vuCtx.active
  /\ phaseTag = "none"
  /\ factoryCall = "none"
  /\ factoryIn = Undefined
  /\ factoryOut = Undefined
  /\ AggIdle
  /\ AuthIdle
  /\ VerifyIdle
  /\ GenIdle
  /\ EngineIdle
  /\ ScriptIdle

(* const phase = getCurrentPhase(); params.tags.phase = phase *)
TagIteration ==
  /\ vuCtx.vu > 0
  /\ phaseTag = "none"
  /\ phaseTag' = getCurrentPhase(vuCtx.vu)
  /\ UNCHANGED <<vuCtx, factoryCall, factoryIn, factoryOut, engineVars,
                 scriptVars, aggVars, authVars, verifyVars, genVars>>

PhaseNext == TagIteration

SpecPhase == PhaseInit /\ [][PhaseNext]_vars

(* the phase whose bracket contains n *)
BracketOf(n) ==
  CASE n <= 5 -> "phase1-5vu"
    [] n > 5 /\ n <= 10 -> "phase2-10vu"
    [] n > 10 /\ n <= 25 -> "phase3-25vu"
    [] n > 25 /\ n <= 50 -> "phase4-50vu"
    [] n > 50 /\ n <= 75 -> "phase5-75vu"
    [] n > 75 /\ n <= 100 -> "phase6-100vu"
    [] n > 100 /\ n <= 150 -> "phase7-150vu"
    [] OTHER -> "phase8-200vu"

(***************************************************************************)
(* C26.  (as claimed) While N VUs are active, every iteration is tagged    *)
(* with the phase whose bracket contains N.                                *)
(***************************************************************************)
C26_PhaseFollowsActiveCount ==
  phaseTag # "none" => phaseTag = BracketOf(vuCtx.active)

(***************************************************************************)
(* C27.  A load-test iteration runs in the fixed order build activity and  *)
(* POST (exactly one), checks and exactly one 'errors' sample, think-time  *)
(* sleep, return.  The sample is true exactly when a check failed: the     *)
(* status is not 200/202, the duration is not under the limit (1000 ms,    *)
(* 10000 ms in v2), or, in the authenticated variant, the body contains    *)
(* 'error'.  The sleep follows whether or not the iteration failed.        *)
(***************************************************************************)
C27_CheckFailed(sc, r) ==
  \/ r.status \notin {200, 202}
  \/ DurValues[r.dur] >= (IF sc = "load" THEN 1000 ELSE 10000)
  \/ sc = "load" /\ r.body = "error"

C27_IterationStep ==
  script \in {"load", "loadv2"} =>
    \A v \in VUIds :
      vus'[v].pc # vus[v].pc =>
        \/ /\ vus[v].pc = "top" /\ vus'[v].pc = "post"
           /\ vus'[v].posts = vus[v].posts + 1
           /\ vus'[v].nsamples = vus[v].nsamples
           /\ agg' = agg
        \/ /\ vus[v].pc = "post" /\ vus'[v].pc = "sleep"
           /\ vus'[v].posts = vus[v].posts
           /\ vus'[v].nsamples = vus[v].nsamples + 1
           /\ agg'.errN = agg.errN + 1
           /\ agg'.errTrue =
                agg.errTrue + B2N(C27_CheckFailed(script, vus'[v].resp))
           /\ (vus'[v].sample = "err") <=> C27_CheckFailed(script, vus'[v].resp)
        \/ /\ vus[v].pc = "sleep" /\ vus'[v].pc = "top"
           /\ vus'[v].posts = vus[v].posts
           /\ vus'[v].nsamples = vus[v].nsamples
           /\ vus'[v].finished = vus[v].finished + 1
           /\ agg' = agg

C27_IterationOrder ==
  /\ [][C27_IterationStep]_vars
  /\ [](script \in {"load", "loadv2"} =>
          \A v \in VUIds :
            /\ vus[v].posts = vus[v].started
            /\ vus[v].pc = "top" =>
                 vus[v].posts = vus[v].finished /\ vus[v].nsamples = vus[v].finished
            /\ vus[v].pc = "post" =>
                 vus[v].posts = vus[v].finished + 1
                 /\ vus[v].nsamples = vus[v].finished
            /\ vus[v].pc = "sleep" =>
                 vus[v].posts = vus[v].finished + 1
                 /\ vus[v].nsamples = vus[v].finished + 1)

C27_Witness ==
  /\ script = "load"
  /\ vus[1].finished = 1
  /\ vus[1].pc = "sleep"
  /\ vus[1].sample = "err"
  /\ vus[1].resp = [status |-> 200, dur |-> 1, body |-> "error"]
  /\ agg.errN = 2
  /\ agg.errTrue = 2

(***************************************************************************)
(* C28.  Environment selection in the load test and the smoke test is      *)
(* case-insensitive and total: an unset (or empty) ENV selects local; any  *)
(* casing of local, stage or prod selects the endpoint, app id and tenant  *)
(* id of that environment and of no other; any other value throws         *)
(* 'Unknown environment'.  Only the local endpoint has a fallback.  The    *)
(* configuration is resolved once, at initialisation, and never changes.   *)
(***************************************************************************)
C28_Selected(name) ==
  CASE name \in {"unset", "", "local", "LOCAL"} -> "local"
    [] name \in {"stage", "Stage"} -> "stage"
    [] name \in {"prod", "PROD"} -> "prod"
    [] OTHER -> "other"

C28_Resolved ==
  LET sel == C28_Selected(env.ENV) IN
  /\ initState = "pending" => config = NoConfig
  /\ initState = "ok" =>
       /\ sel # "other"
       /\ config.endpoint =
            (IF sel \in env.endpoints THEN sel
             ELSE IF sel = "local" THEN "http://localhost:3978/api/messages"
             ELSE "undefined")
       /\ config.appId =
            (IF sel \in env.appIds THEN sel \o "-app" ELSE "undefined")
       /\ config.tenantId =
            (IF sel \in env.tenantIds THEN sel \o "-tenant" ELSE "undefined")
  /\ sel = "other" =>
       \/ initState = "pending"
       \/ initState = "threw" /\ initError = "Unknown environment: " \o env.ENV
  /\ (initState = "threw" /\ sel # "other") =>
       /\ script = "load"
       /\ sel \in {"stage", "prod"}
       /\ sel \notin env.endpoints

C28_EnvironmentSelection ==
  /\ [](script \in {"load", "smoke"} => C28_Resolved)
  /\ [][initState # "pending" =>
          config' = config /\ initState' = initState /\ env' = env]_vars

C28_Witness ==
  /\ script = "smoke"
  /\ initState = "ok"
  /\ env.ENV = "Stage"
  /\ env.endpoints = {"local", "stage", "prod"}
  /\ env.appIds = {"local", "stage", "prod"}
  /\ config.endpoint = "stage"
  /\ config.appId = "stage-app"
  /\ config.tenantId = "stage-tenant"
  /\ spc = "done"

(***************************************************************************)
(* C30.  In the smoke test the health check never gates the message test:  *)
(* whatever the health response is, or when the health check is skipped,   *)
(* the single iteration issues exactly one POST to the message endpoint,   *)
(* after the health check.  'Message sent successfully' is logged exactly  *)
(* when the POST status is 200 or 202, and 'Some checks failed' is logged  *)
(* whenever the status is not 200 or 202.                                  *)
(***************************************************************************)
C30_Posts == { i \in 1..Len(requests) : requests[i].method = "POST" }

C30_Logged(line) == \E i \in 1..Len(smokeLogs) : smokeLogs[i] = line

C30_HealthNeverGates ==
  script \in {"smoke", "smokev2"} =>
    /\ spc = "health-done" => C30_Posts = {} /\ ENABLED SmokePost
    /\ spc = "start" => requests = << >>
    /\ spc = "done" =>
         /\ C30_Posts = { Len(requests) }
         /\ requests[Len(requests)].url = config.endpoint
         /\ Len(requests) = (IF healthResp = -1 THEN 1 ELSE 2)
         /\ C30_Logged("Message sent successfully")
              <=> smokeResp.status \in {200, 202}
         /\ smokeResp.status \notin {200, 202} => C30_Logged("Some checks failed")

C30_Witness ==
  /\ script = "smoke"
  /\ spc = "done"
  /\ healthResp = 503
  /\ smokeResp = [status |-> 202, slow |-> FALSE]
  /\ smokeLogs = << "Health check returned", "Message sent successfully" >>
  /\ Len(requests) = 2

(***************************************************************************)
(* lib/activity-factory.js: createMessageActivity(options) and             *)
(* createTestActivity(config, message).  A property that was not supplied  *)
(* is "undefined", an object that was not supplied is Undefined; reading a *)
(* property of it throws a TypeError.  uuidv4() is an argument; the        *)
(* timestamp is left out.                                                  *)
(***************************************************************************)
Uuids == {"uuid-1", "uuid-2"}

ConversationTypes == [PERSONAL |-> "personal", GROUP |-> "group", CHANNEL |-> "channel"]

(* a || b on strings *)
OrElse(a, b) == IF a \in {"undefined", ""} THEN b ELSE a

(* a destructuring default: { a = b } *)
Default(a, b) == IF a = "undefined" THEN b ELSE a

FromInputs ==
  {Undefined} \cup
  [ id : {"29:user"}, name : {"User"}, aadObjectId : {"undefined", "aad-1"},
    role : {"undefined", "bot"} ]

RecipientInputs ==
  {Undefined} \cup
  [ id : {"undefined", "app-1"}, name : {"undefined", "Bot X"},
    role : {"undefined", "user"} ]

ConversationInputs ==
  {Undefined} \cup
  [ id : {"undefined", "c-1"},
    conversationType :
      {"undefined", "", "personal", "group", "channel", "Group", "groupChat"},
    isGroup : {"undefined", "true"},
    tenantId : {"undefined", "t-1"} ]

OptionsInputs ==
  [ text : {"test"}, from : FromInputs, recipient : RecipientInputs,
    conversation : ConversationInputs, serviceUrl : {"https://smba"},
    channelId : {"undefined", "emulator"} ]

ConfigInputs ==
  [ testUser : {Undefined} \cup
               [ id : {"29:user"}, name : {"User"}, aadObjectId : {"aad-1"} ],
    credentials : {Undefined} \cup
                  [ appId : {"undefined", "app-1", "app-2"},
                    tenantId : {"undefined", "t-1"} ],
    serviceUrl : {"undefined", "https://smba"},
    message : {"undefined", "hello"} ]

(* an isGroup that knows group conversations only *)
IsGroupOnlyGroup(conversationType) == conversationType = ConversationTypes.GROUP

(* conversation.conversationType === GROUP || ... === CHANNEL *)
IsGroup(conversationType) ==
  \/ conversationType = ConversationTypes.GROUP
  \/ conversationType = ConversationTypes.CHANNEL

Threw == [throws |-> TRUE, activity |-> Undefined]

createMessageActivity(options, uuid) ==
  IF \/ options.from = Undefined
     \/ options.recipient = Undefined
     \/ options.conversation = Undefined
  THEN Threw
  ELSE
    [ throws |-> FALSE,
      activity |->
        [ type |-> "message",
          id |-> uuid,
          channelId |-> Default(options.channelId, "msteams"),
          from |-> [ id |-> options.from.id, name |-> options.from.name,
                     aadObjectId |-> options.from.aadObjectId,
                     role |-> "user" ],
          recipient |-> [ id |-> options.recipient.id,
                          name |-> OrElse(options.recipient.name, "Bot"),
                          role |-> "bot" ],
          conversation |->
            [ id |-> OrElse(options.conversation.id,
                            "test-conversation-" \o uuid),
              conversationType |->
                OrElse(options.conversation.conversationType,
                       ConversationTypes.PERSONAL),
              isGroup |-> IsGroup(options.conversation.conversationType),
              tenantId |-> options.conversation.tenantId ],
          text |-> options.text,
          textFormat |-> "plain",
          locale |-> "en-US",
          serviceUrl |-> options.serviceUrl,
          channelData |->
            [ tenant |-> IF options.conversation.tenantId \in {"undefined", ""}
                         THEN "undefined"
                         ELSE options.conversation.tenantId ] ] ]

createTestActivity(cfg, uuid) ==
  IF cfg.testUser = Undefined \/ cfg.credentials = Undefined
  THEN Threw
  ELSE createMessageActivity(
         [ text |-> Default(cfg.message, "test"),
           from |-> [ id |-> cfg.testUser.id, name |-> cfg.testUser.name,
                      aadObjectId |-> cfg.testUser.aadObjectId,
                      role |-> "undefined" ],
           recipient |-> [ id |-> cfg.credentials.appId,
                           name |-> "Workoflow Bot", role |-> "undefined" ],
           conversation |-> [ id |-> "test-conversation-" \o uuid,
                              conversationType |-> ConversationTypes.PERSONAL,
                              isGroup |-> "undefined",
                              tenantId |-> cfg.credentials.tenantId ],
           serviceUrl |-> cfg.serviceUrl,
           channelId |-> "undefined" ],
         uuid)

FactoryInit ==
  /\ factoryIn \in OptionsInputs \cup ConfigInputs
  /\ factoryCall = "none"
  /\ factoryOut = Undefined
  /\ vuCtx = [vu |-> 0, active |-> 0]
  /\ phaseTag = "none"
  /\ AggIdle
  /\ AuthIdle
  /\ VerifyIdle
  /\ GenIdle
  /\ EngineIdle
  /\ ScriptIdle

CallCreateMessageActivity ==
  /\ factoryCall = "none"
  /\ "text" \in DOMAIN factoryIn
  /\ factoryCall' = "createMessageActivity"
  /\ \E uuid \in Uuids : factoryOut' = createMessageActivity(factoryIn, uuid)
  /\ UNCHANGED <<factoryIn, vuCtx, phaseTag, engineVars, scriptVars, aggVars,
                 authVars, verifyVars, genVars>>

CallCreateTestActivity ==
  /\ factoryCall = "none"
  /\ "testUser" \in DOMAIN factoryIn
  /\ factoryCall' = "createTestActivity"
  /\ \E uuid \in Uuids : factoryOut' = createTestActivity(factoryIn, uuid)
  /\ UNCHANGED <<factoryIn, vuCtx, phaseTag, engineVars, scriptVars, aggVars,
                 authVars, verifyVars, genVars>>

FactoryNext ==
  \/ CallCreateMessageActivity
  \/ CallCreateTestActivity

SpecFactory == FactoryInit /\ [][FactoryNext]_vars

(***************************************************************************)
(* C29.  Every activity createMessageActivity returns has type 'message',  *)
(* from.role 'user' and recipient.role 'bot', and conversation.isGroup is  *)
(* true exactly when the supplied conversationType is 'group' or           *)
(* 'channel'; without a conversationType the output conversationType is    *)
(* 'personal' and isGroup is false.  createTestActivity always yields a    *)
(* personal, non-group conversation whose recipient id is                  *)
(* config.credentials.appId.                                               *)
(***************************************************************************)
C29_ActivityShape ==
  /\ (factoryCall = "createMessageActivity" /\ ~factoryOut.throws) =>
       LET a == factoryOut.activity
           supplied == factoryIn.conversation.conversationType
       IN  /\ a.type = "message"
           /\ a.from.role = "user"
           /\ a.recipient.role = "bot"
           /\ a.conversation.isGroup <=> supplied \in {"group", "channel"}
           /\ supplied = "undefined" =>
                /\ a.conversation.conversationType = "personal"
                /\ a.conversation.isGroup = FALSE
  /\ (factoryCall = "createTestActivity" /\ ~factoryOut.throws) =>
       LET a == factoryOut.activity
       IN  /\ a.conversation.conversationType = "personal"
           /\ a.conversation.isGroup = FALSE
           /\ a.recipient.id = factoryIn.credentials.appId
           /\ a.type = "message"
  /\ (factoryCall = "createMessageActivity" /\ factoryOut.throws) =>
       Undefined \in
         { factoryIn.from, factoryIn.recipient, factoryIn.conversation }

C29_Witness ==
  /\ factoryCall = "createMessageActivity"
  /\ factoryIn.conversation # Undefined
  /\ factoryIn.conversation.conversationType = "channel"
  /\ factoryIn.conversation.isGroup = "undefined"
  /\ factoryIn.from # Undefined
  /\ factoryIn.from.role = "bot"
  /\ ~factoryOut.throws
  /\ factoryOut.activity.conversation.isGroup
  /\ factoryOut.activity.from.role = "user"

====
